---------------------------- MODULE Spec2Model ----------------------------
(***************************************************************************)
(* A model of ironshield-types: the signed proof-of-work challenge         *)
(* (src/src/challenge.rs) and its signing, verification and key loading    *)
(* (src/src/crypto.rs).                                                     *)
(*                                                                         *)
(* Strings are sequences of one-character strings, byte arrays are         *)
(* sequences of numbers 0..255.  Integers are TLC integers: the model      *)
(* covers timestamps, difficulties and attempt counts below 2^31, and the  *)
(* decimal parsers check the i64/u64 range on the digit string itself.     *)
(* recommended_attempts is computed at the full width of u64, on four      *)
(* 16-bit limbs.                                                           *)
(*                                                                         *)
(* Spec is a caller of the library; SpecParam, SpecWire, SpecParse,        *)
(* SpecKeys and SpecPayload apply the threshold algorithm, the wire        *)
(* format, the parser, the key loaders and the signing payload to bounded  *)
(* inputs; SpecSeparator issues challenges whose website_id holds the      *)
(* separator; SpecRun follows parse_key_simple one loop iteration a step;  *)
(* SpecTests interleaves the tests of crypto.rs that share the process     *)
(* environment.                                                            *)
(*                                                                         *)
(* Ed25519 (the ed25519_dalek crate) is outside the repository and is      *)
(* modelled as an ideal signature scheme: a ledger `sigs` records the      *)
(* (signing key, message) pair of every signature a challenge was issued   *)
(* with, the signature bytes name the ledger entry, and a signature        *)
(* verifies exactly for the key and the message of its entry.              *)
(***************************************************************************)
EXTENDS Integers, Sequences, FiniteSets, TLC

VARIABLES
    now,        \* the system clock, Utc::now().timestamp_millis()
    env,        \* the process environment: IRONSHIELD_PRIVATE_KEY / _PUBLIC_KEY
    challenge,  \* the IronShieldChallenge value the caller holds (fields are pub)
    issued,     \* the challenge as IronShieldChallenge::new returned it, and its signer
    sigs,       \* the ledger of the ideal signature scheme
    last,       \* the outcome of the operation that ran last
    prev,       \* what `last` held before the latest difficulty_to_challenge_param
    ENV_MUTEX,  \* the test that holds ENV_MUTEX, if any
    pc,         \* the step each environment-writing test of crypto.rs is at
    loaded,     \* what the key loaders returned to each test
    locking,    \* whether the tests take ENV_MUTEX, as they do in crypto.rs
    run         \* a call of parse_key_simple in progress: its locals, loop by loop

testVars == <<ENV_MUTEX, pc, loaded, locking>>

vars == <<now, env, challenge, issued, sigs, last, prev, testVars, run>>

-----------------------------------------------------------------------------
(* Bounds of the model                                                     *)

\* difficulties 0..MaxDifficulty are given to difficulty_to_challenge_param
MaxDifficulty == 40

\* the powers of two given as difficulties are 2^1 .. 2^MaxExponent
MaxExponent == 20

-----------------------------------------------------------------------------
(* Sequences, characters, bytes                                            *)

\* an absent value is the empty sequence, a present one the sequence of it
None == <<>>

Some(v) == <<v>>

Byte == 0..255

Range(s) == {s[i] : i \in DOMAIN s}

Repeat(x, n) == [i \in 1..n |-> x]

RECURSIVE Flatten(_)
Flatten(ss) ==
    IF ss = <<>> THEN <<>> ELSE Head(ss) \o Flatten(Tail(ss))

\* the first position of x in s, 0 when absent
IndexOf(s, x) ==
    IF \E i \in DOMAIN s : s[i] = x
    THEN CHOOSE i \in DOMAIN s : s[i] = x /\ \A j \in 1..(i - 1) : s[j] # x
    ELSE 0

RECURSIVE Pow2(_)
Pow2(n) == IF n = 0 THEN 1 ELSE 2 * Pow2(n - 1)

Digits == <<"0", "1", "2", "3", "4", "5", "6", "7", "8", "9">>

HexDigits == <<"0", "1", "2", "3", "4", "5", "6", "7", "8", "9", "a", "b", "c", "d", "e", "f">>

HexDigitsUpper == <<"0", "1", "2", "3", "4", "5", "6", "7", "8", "9", "A", "B", "C", "D", "E", "F">>

\* the value of each decimal digit
DigitValue == [c \in Range(Digits) |-> IndexOf(Digits, c) - 1]

\* the value of each hex digit, of either case
HexDigitValue ==
    [c \in Range(HexDigits) \cup Range(HexDigitsUpper) |->
        IF c \in Range(HexDigits) THEN IndexOf(HexDigits, c) - 1
        ELSE IndexOf(HexDigitsUpper, c) - 1]

Ok(v) == [ok |-> TRUE, val |-> v]

Err(e) == [ok |-> FALSE, err |-> e]


-----------------------------------------------------------------------------
(* Decimal and hexadecimal text: Rust's Display and FromStr for i64 and    *)
(* u64, and the hex crate's encode and decode                              *)

RECURSIVE FmtNat(_)
FmtNat(n) ==
    IF n < 10 THEN <<Digits[n + 1]>>
    ELSE FmtNat(n \div 10) \o <<Digits[(n % 10) + 1]>>

\* format!("{}", n) of an i64
FmtI64(n) == IF n < 0 THEN <<"-">> \o FmtNat(0 - n) ELSE FmtNat(n)

\* format!("{}", n) of a u64
FmtU64(n) == FmtNat(n)

RECURSIVE StripZeros(_)
StripZeros(ds) ==
    IF Len(ds) > 1 /\ Head(ds) = "0" THEN StripZeros(Tail(ds)) ELSE ds

RECURSIVE LexLeq(_, _)
LexLeq(a, b) ==
    IF a = <<>> THEN TRUE
    ELSE LET x == DigitValue[Head(a)]
             y == DigitValue[Head(b)]
         IN  IF x # y THEN x < y ELSE LexLeq(Tail(a), Tail(b))

\* whether the number written by digits a is at most the number written by b
DigitsLeq(a, b) ==
    LET x == StripZeros(a)
        y == StripZeros(b)
    IN  \/ Len(x) < Len(y)
        \/ Len(x) = Len(y) /\ LexLeq(x, y)

\* i64::MAX, the magnitude of i64::MIN, and u64::MAX, as digit strings
I64MaxDigits ==
    <<"9","2","2","3","3","7","2","0","3","6","8","5","4","7","7","5","8","0","7">>

I64MinDigits ==
    <<"9","2","2","3","3","7","2","0","3","6","8","5","4","7","7","5","8","0","8">>

U64MaxDigits ==
    <<"1","8","4","4","6","7","4","4","0","7","3","7","0","9","5","5","1","6","1","5">>

RECURSIVE NatOf(_)
NatOf(ds) ==
    IF ds = <<>> THEN 0
    ELSE 10 * NatOf(SubSeq(ds, 1, Len(ds) - 1)) + DigitValue[ds[Len(ds)]]

AllDigits(s) == s # <<>> /\ \A i \in DOMAIN s : s[i] \in Range(Digits)

\* str::parse::<i64>: an optional sign, then decimal digits, within the i64 range
ParseI64(s) ==
    IF s = <<>> THEN Err("parse")
    ELSE LET neg  == Head(s) = "-"
             body == IF Head(s) \in {"+", "-"} THEN Tail(s) ELSE s
         IN  IF ~AllDigits(body) THEN Err("parse")
             ELSE IF ~DigitsLeq(body, IF neg THEN I64MinDigits ELSE I64MaxDigits)
                  THEN Err("parse")
             ELSE Ok(IF neg THEN 0 - NatOf(body) ELSE NatOf(body))

\* str::parse::<u64>: an optional '+', then decimal digits, within the u64 range
ParseU64(s) ==
    IF s = <<>> THEN Err("parse")
    ELSE LET body == IF Head(s) = "+" THEN Tail(s) ELSE s
         IN  IF ~AllDigits(body) THEN Err("parse")
             ELSE IF ~DigitsLeq(body, U64MaxDigits) THEN Err("parse")
             ELSE Ok(NatOf(body))

\* hex::encode: two lowercase digits per byte, high nibble first
HexEncode(bytes) ==
    [k \in 1..(2 * Len(bytes)) |->
        IF k % 2 = 1 THEN HexDigits[(bytes[(k + 1) \div 2] \div 16) + 1]
        ELSE HexDigits[(bytes[k \div 2] % 16) + 1]]

\* the value of a hex digit of either case, -1 for any other character
HexVal(c) == IF c \in DOMAIN HexDigitValue THEN HexDigitValue[c] ELSE -1

\* hex::decode: an even number of hex digits of either case
HexDecode(s) ==
    IF Len(s) % 2 # 0 THEN Err("odd length")
    ELSE IF \E i \in DOMAIN s : HexVal(s[i]) < 0 THEN Err("invalid character")
    ELSE Ok([i \in 1..(Len(s) \div 2) |-> 16 * HexVal(s[2 * i - 1]) + HexVal(s[2 * i])])

-----------------------------------------------------------------------------
(* challenge.rs: the difficulty -> threshold algorithm                     *)

HASH_BITS == 256

ARRAY_SIZE == 32

BITS_PER_BYTE == 8

BITS_PER_BYTE_MASK == 7

MAX_BYTE_VALUE == 255

MAX_BIT_POSITION == 255

LSB_INDEX == ARRAY_SIZE - 1

LSB_VALUE == 1

\* panic!(..): the call returns no value
Panic(msg) == [ok |-> FALSE, err |-> "panic", msg |-> msg]

\* [0u8; 32] with result[LSB_INDEX] = LSB_VALUE (Rust indexes from 0)
create_minimal_challenge_param ==
    [i \in 1..ARRAY_SIZE |-> IF i = LSB_INDEX + 1 THEN LSB_VALUE ELSE 0]

\* a plausible slip: the bit index counted from the other end of the byte
BitIndexInByte_Reversed(bit_position) ==
    (MAX_BIT_POSITION - bit_position) % BITS_PER_BYTE

\* the bit index within the byte, as the deployed code computes it
BitIndexInByte(bit_position) ==
    BITS_PER_BYTE_MASK - ((MAX_BIT_POSITION - bit_position) % BITS_PER_BYTE)

\* a plausible slip: the array returned before the bit is set
create_challenge_param_with_bit_set_Unset(bit_position) ==
    Repeat(0, ARRAY_SIZE)

create_challenge_param_with_bit_set(bit_position) ==
    LET byte_index == (MAX_BIT_POSITION - bit_position) \div BITS_PER_BYTE
        bit_index  == BitIndexInByte(bit_position)
    IN  IF byte_index < ARRAY_SIZE
        THEN [i \in 1..ARRAY_SIZE |-> IF i = byte_index + 1 THEN Pow2(bit_index) ELSE 0]
        ELSE create_minimal_challenge_param

\* floor(log2(d)) for d >= 1
RECURSIVE FloorLog2(_)
FloorLog2(d) == IF d < 2 THEN 0 ELSE 1 + FloorLog2(d \div 2)

\* <<floor(2^e / d), 2^e mod d>> by long division, four bits to a step (no
\* intermediate exceeds 16 * d)
RECURSIVE QuotRemPow2(_, _)
QuotRemPow2(e, d) ==
    IF e < 4 THEN <<Pow2(e) \div d, Pow2(e) % d>>
    ELSE LET qr == QuotRemPow2(e - 4, d)
         IN  <<16 * qr[1] + ((16 * qr[2]) \div d), (16 * qr[2]) % d>>

\* a plausible slip: log2 of the difficulty rounded down
RoundLog2_Floor(d) == FloorLog2(d)

\* (difficulty as f64).log2() rounded to the nearest integer.  With
\* n = floor(log2 d), log2 d lies above n + 1/2 exactly when d * d > 2^(2n+1),
\* that is when d > 2^(2n+1) / d (2^(2n+1) is no square, so there is no tie).
\* The f64 values follow the exact ones for every d below 2^22: there the
\* distance of log2 d from n + 1/2 exceeds the rounding error of log2 and of
\* the subtraction from 256.  The same holds of the tested difficulty 10^7.
RoundLog2(d) ==
    LET n == FloorLog2(d)
    IN  IF d > QuotRemPow2(2 * n + 1, d)[1] THEN n + 1 ELSE n

\* a plausible slip: the exponent counted from the highest bit position
BitPosition_FromMaxBit(d) == MAX_BIT_POSITION - RoundLog2(d)

\* target_exponent.round() as usize, where target_exponent = 256 - log2(d)
BitPosition(d) == HASH_BITS - RoundLog2(d)

\* a plausible slip: no difficulty is rejected
DifficultyIsZero_Never(difficulty) == FALSE

\* the zero check of difficulty_to_challenge_param
DifficultyIsZero(difficulty) == difficulty = 0

difficulty_to_challenge_param(difficulty) ==
    IF DifficultyIsZero(difficulty) THEN Panic("Difficulty cannot be zero.")
    ELSE IF difficulty = 1 THEN Ok(Repeat(MAX_BYTE_VALUE, ARRAY_SIZE))
    \* target_exponent <= 0.0, i.e. log2(difficulty) >= 256
    ELSE IF FloorLog2(difficulty) >= HASH_BITS THEN Ok(create_minimal_challenge_param)
    \* target_exponent >= 256.0, i.e. log2(difficulty) <= 0
    ELSE IF difficulty <= 1 THEN Ok(Repeat(MAX_BYTE_VALUE, ARRAY_SIZE))
    ELSE IF BitPosition(difficulty) >= HASH_BITS THEN Ok(Repeat(MAX_BYTE_VALUE, ARRAY_SIZE))
    ELSE Ok(create_challenge_param_with_bit_set(BitPosition(difficulty)))

\* A u64 at its full width: four 16-bit limbs, the least significant first.
\* ToLimbs takes the numbers TLC can hold, FromLimbs gives back those it can.
ToLimbs(n) == <<n % 65536, (n \div 65536) % 65536, 0, 0>>

FromLimbs(w) == w[1] + 65536 * w[2]

\* u64::MAX
U64MaxLimbs == <<65535, 65535, 65535, 65535>>

\* u64::wrapping_mul(2): each limb doubled, plus the bit carried out of the
\* limb below; the bit carried out of the top limb is lost
WrappingDouble(w) ==
    [i \in 1..4 |-> (2 * w[i] + (IF i > 1 /\ w[i - 1] >= 32768 THEN 1 ELSE 0)) % 65536]

\* a plausible slip: the product left to wrap around
SaturatingDouble_Wrapping(w) == WrappingDouble(w)

\* u64::saturating_mul(2): u64::MAX when the product does not fit
SaturatingDouble(w) == IF w[4] >= 32768 THEN U64MaxLimbs ELSE WrappingDouble(w)

\* difficulty.saturating_mul(2)
recommended_attempts(difficulty) == SaturatingDouble(difficulty)

-----------------------------------------------------------------------------
(* Text as bytes, and the base64 crate's engines                           *)

\* the printable ASCII characters, code 32 first ("GRAVE" stands for the
\* backquote, which a TLA+ string cannot hold)
Ascii ==
    <<
      " ", "!", "\"", "#", "$", "%", "&", "'", "(", ")", "*", "+", ",", "-", ".", "/",
      "0", "1", "2", "3", "4", "5", "6", "7", "8", "9", ":", ";", "<", "=", ">", "?",
      "@", "A", "B", "C", "D", "E", "F", "G", "H", "I", "J", "K", "L", "M", "N", "O",
      "P", "Q", "R", "S", "T", "U", "V", "W", "X", "Y", "Z", "[", "\\", "]", "^", "_",
      "GRAVE", "a", "b", "c", "d", "e", "f", "g", "h", "i", "j", "k", "l", "m", "n", "o",
      "p", "q", "r", "s", "t", "u", "v", "w", "x", "y", "z", "{", "|", "}", "~"
    >>

\* the byte of an ASCII character (str::as_bytes)
AsciiCode == [c \in Range(Ascii) |-> IndexOf(Ascii, c) + 31]

CodeOf(c) == AsciiCode[c]

AsBytes(s) == [i \in DOMAIN s |-> CodeOf(s[i])]

IsAsciiText(bytes) == \A i \in DOMAIN bytes : bytes[i] >= 32 /\ bytes[i] <= 126

FromAscii(bytes) == [i \in DOMAIN bytes |-> Ascii[bytes[i] - 31]]

\* the alphabet of base64::engine::general_purpose::STANDARD
STANDARD_ALPHABET ==
    <<
      "A", "B", "C", "D", "E", "F", "G", "H", "I", "J", "K", "L", "M", "N", "O", "P",
      "Q", "R", "S", "T", "U", "V", "W", "X", "Y", "Z", "a", "b", "c", "d", "e", "f",
      "g", "h", "i", "j", "k", "l", "m", "n", "o", "p", "q", "r", "s", "t", "u", "v",
      "w", "x", "y", "z", "0", "1", "2", "3", "4", "5", "6", "7", "8", "9", "+", "/"
    >>

\* the alphabet of base64::engine::general_purpose::URL_SAFE_NO_PAD
URL_SAFE_ALPHABET ==
    <<
      "A", "B", "C", "D", "E", "F", "G", "H", "I", "J", "K", "L", "M", "N", "O", "P",
      "Q", "R", "S", "T", "U", "V", "W", "X", "Y", "Z", "a", "b", "c", "d", "e", "f",
      "g", "h", "i", "j", "k", "l", "m", "n", "o", "p", "q", "r", "s", "t", "u", "v",
      "w", "x", "y", "z", "0", "1", "2", "3", "4", "5", "6", "7", "8", "9", "-", "_"
    >>

\* the value of each symbol of the two alphabets
StandardValue == [c \in Range(STANDARD_ALPHABET) |-> IndexOf(STANDARD_ALPHABET, c) - 1]

UrlSafeValue == [c \in Range(URL_SAFE_ALPHABET) |-> IndexOf(URL_SAFE_ALPHABET, c) - 1]

SymbolValue(alphabet, c) ==
    IF alphabet = STANDARD_ALPHABET THEN StandardValue[c] ELSE UrlSafeValue[c]

\* the byte at index i (from 1), 0 past the end
ByteAt(bytes, i) == IF i <= Len(bytes) THEN bytes[i] ELSE 0

\* the k-th 6-bit value (from 1) of the bytes read as one bit string
SextetAt(bytes, k) ==
    LET g  == (k - 1) \div 4
        b1 == ByteAt(bytes, 3 * g + 1)
        b2 == ByteAt(bytes, 3 * g + 2)
        b3 == ByteAt(bytes, 3 * g + 3)
    IN  CASE (k - 1) % 4 = 0 -> b1 \div 4
          [] (k - 1) % 4 = 1 -> (b1 % 4) * 16 + (b2 \div 16)
          [] (k - 1) % 4 = 2 -> (b2 % 16) * 4 + (b3 \div 64)
          [] OTHER           -> b3 % 64

\* the symbols of the bytes: 4 for every 3 bytes, 2 or 3 for a last 1 or 2
Base64Symbols(alphabet, bytes) ==
    [k \in 1..((4 * Len(bytes) + 2) \div 3) |-> alphabet[SextetAt(bytes, k) + 1]]

\* Engine::encode: with padding the output is filled with '=' to a multiple of 4
Base64Encode(alphabet, pad, bytes) ==
    LET syms == Base64Symbols(alphabet, bytes)
    IN  IF pad THEN syms \o Repeat("=", (4 - (Len(syms) % 4)) % 4) ELSE syms

\* the 6-bit value at index i (from 1), 0 past the end
ValueAt(vals, i) == IF i <= Len(vals) THEN vals[i] ELSE 0

\* the j-th byte (from 1) of the 6-bit values read as one bit string
OctetAt(vals, j) ==
    LET g  == (j - 1) \div 3
        v1 == ValueAt(vals, 4 * g + 1)
        v2 == ValueAt(vals, 4 * g + 2)
        v3 == ValueAt(vals, 4 * g + 3)
        v4 == ValueAt(vals, 4 * g + 4)
    IN  CASE (j - 1) % 3 = 0 -> v1 * 4 + (v2 \div 16)
          [] (j - 1) % 3 = 1 -> (v2 % 16) * 16 + (v3 \div 4)
          [] OTHER           -> (v3 % 4) * 64 + v4

\* the bytes of the values: 3 for every 4 values, 1 or 2 for a last 2 or 3
Base64Bytes(vals) == [j \in 1..((3 * Len(vals)) \div 4) |-> OctetAt(vals, j)]

\* the bits of the last symbol that no output byte holds
Base64TrailingBits(vals) ==
    IF Len(vals) % 4 = 2 THEN vals[Len(vals)] % 16
    ELSE IF Len(vals) % 4 = 3 THEN vals[Len(vals)] % 4
    ELSE 0

\* the number of '=' characters that end s, at most 2 counted
Base64PadCount(s) ==
    IF Len(s) >= 2 /\ s[Len(s)] = "=" /\ s[Len(s) - 1] = "=" THEN 2
    ELSE IF Len(s) >= 1 /\ s[Len(s)] = "=" THEN 1
    ELSE 0

\* Engine::decode.  With pad (STANDARD) the padding must be canonical, without
\* (URL_SAFE_NO_PAD) there must be none; every other character must be of the
\* alphabet, the length must be possible and the unused bits of the last
\* symbol must be zero.
Base64Decode(alphabet, pad, s) ==
    LET \* the bytes of the symbol values, the values worked out once
        OfValues(vals) ==
            IF Base64TrailingBits(vals) # 0 THEN Err("invalid last symbol")
            ELSE Ok(Base64Bytes(vals))
        \* the decoding of the symbols before the padding
        OfData(npad, data) ==
            IF \E i \in DOMAIN data : data[i] \notin Range(alphabet) THEN Err("invalid byte")
            ELSE IF Len(data) % 4 = 1 THEN Err("invalid length")
            ELSE IF pad /\ npad # (4 - (Len(data) % 4)) % 4 THEN Err("invalid padding")
            ELSE CHOOSE decoded \in
                     {OfValues(vals) :
                          vals \in {[i \in DOMAIN data |-> SymbolValue(alphabet, data[i])]}} : TRUE
    IN  CHOOSE decoded \in
            {OfData(npad, SubSeq(str, 1, Len(str) - npad)) :
                 str \in {s}, npad \in {IF pad THEN Base64PadCount(s) ELSE 0}} : TRUE

-----------------------------------------------------------------------------
(* challenge.rs: the challenge, its lifetime and its wire format           *)

\* expiration_time = created_time + 30_000
VALIDITY_MS == 30000

Challenge(nonce, created, expires, website, param, attempts, pk, sig) ==
    [ random_nonce         |-> nonce,
      created_time         |-> created,
      expiration_time      |-> expires,
      website_id           |-> website,
      challenge_param      |-> param,
      recommended_attempts |-> attempts,
      public_key           |-> pk,
      challenge_signature  |-> sig ]

\* a plausible slip: expired already at the expiration instant
is_expired_AtInstant(c, clock) == clock >= c.expiration_time

\* Utc::now().timestamp_millis() > self.expiration_time
is_expired(c, clock) == clock > c.expiration_time

\* a plausible slip: the time since expiry instead of the time left
time_until_expiration_Elapsed(c, clock) == clock - c.expiration_time

\* self.expiration_time - Utc::now().timestamp_millis()
time_until_expiration(c, clock) == c.expiration_time - clock

\* hex::encode(&rand::random::<[u8; 16]>())
generate_random_nonce(random_bytes) == HexEncode(random_bytes)

\* a plausible slip: the parts put together with nothing between them
RECURSIVE Join_NoSeparator(_, _)
Join_NoSeparator(parts, sep) ==
    IF Len(parts) = 0 THEN <<>>
    ELSE parts[1] \o Join_NoSeparator(Tail(parts), sep)

RECURSIVE Join(_, _)
Join(parts, sep) ==
    IF Len(parts) = 0 THEN <<>>
    ELSE IF Len(parts) = 1 THEN parts[1]
    ELSE parts[1] \o <<sep>> \o Join(Tail(parts), sep)

\* a plausible slip: str::split_once, the cut made at the first separator only
Split_Once(s, sep) ==
    IF sep \notin Range(s) THEN <<s>>
    ELSE <<SubSeq(s, 1, IndexOf(s, sep) - 1), SubSeq(s, IndexOf(s, sep) + 1, Len(s))>>

\* str::split(sep): the pieces between the separators, one more than there
\* are separators
RECURSIVE Split(_, _)
Split(s, sep) ==
    IF sep \notin Range(s) THEN <<s>>
    ELSE LET i == IndexOf(s, sep)
         IN  <<SubSeq(s, 1, i - 1)>> \o Split(SubSeq(s, i + 1, Len(s)), sep)

\* a plausible slip: recommended_attempts left out of the wire format
ConcatFields_NoAttempts(c) ==
    << c.random_nonce,
       FmtI64(c.created_time),
       FmtI64(c.expiration_time),
       c.website_id,
       HexEncode(c.challenge_param),
       HexEncode(c.public_key),
       HexEncode(c.challenge_signature) >>

\* the fields of the wire format, in order
ConcatFields(c) ==
    << c.random_nonce,
       FmtI64(c.created_time),
       FmtI64(c.expiration_time),
       c.website_id,
       HexEncode(c.challenge_param),
       FmtU64(c.recommended_attempts),
       HexEncode(c.public_key),
       HexEncode(c.challenge_signature) >>

concat_struct(c) == Join(ConcatFields(c), "|")

\* a plausible slip: bytes beyond the array's length dropped
DecodeArray_Truncating(part, n, hex_error, length_error) ==
    LET d == HexDecode(part)
    IN  IF ~d.ok THEN Err(hex_error)
        ELSE IF Len(d.val) < n THEN Err(length_error)
        ELSE Ok(SubSeq(d.val, 1, n))

\* hex::decode(part) followed by try_into::<[u8; n]>()
DecodeArray(part, n, hex_error, length_error) ==
    LET d == HexDecode(part)
    IN  IF ~d.ok THEN Err(hex_error)
        ELSE IF Len(d.val) # n THEN Err(length_error)
        ELSE Ok(d.val)

from_concat_struct(concat_str) ==
    LET parts == Split(concat_str, "|")
    IN  IF Len(parts) # 8 THEN Err(<<"Expected 8 parts, got", Len(parts)>>)
        ELSE
        LET created  == ParseI64(parts[2])
            expires  == ParseI64(parts[3])
            param    == DecodeArray(parts[5], 32,
                            "Failed to decode challenge_params hex string",
                            "Challenge params must be exactly 32 bytes")
            attempts == ParseU64(parts[6])
            pk       == DecodeArray(parts[7], 32,
                            "Failed to decode public_key hex string",
                            "Public key must be exactly 32 bytes")
            sig      == DecodeArray(parts[8], 64,
                            "Failed to decode challenge_signature hex string",
                            "Signature must be exactly 64 bytes")
        IN  IF ~created.ok THEN Err("Failed to parse created_time as i64")
            ELSE IF ~expires.ok THEN Err("Failed to parse expiration_time as i64")
            ELSE IF ~param.ok THEN param
            ELSE IF ~attempts.ok THEN Err("Failed to parse recommended_attempts as u64")
            ELSE IF ~pk.ok THEN pk
            ELSE IF ~sig.ok THEN sig
            ELSE Ok(Challenge(parts[1], created.val, expires.val, parts[4],
                              param.val, attempts.val, pk.val, sig.val))

\* serde_utils::concat_struct_base64url_encode: base64url without padding of
\* the UTF-8 bytes of the string
concat_struct_base64url_encode(concat_str) ==
    Base64Encode(URL_SAFE_ALPHABET, FALSE, AsBytes(concat_str))

\* serde_utils::concat_struct_base64url_decode: the string whose UTF-8 bytes
\* the header encodes (the model's text is printable ASCII)
concat_struct_base64url_decode(encoded) ==
    LET d == Base64Decode(URL_SAFE_ALPHABET, FALSE, encoded)
    IN  IF ~d.ok THEN Err(<<"Base64 decode error", d.err>>)
        ELSE IF ~IsAsciiText(d.val) THEN Err("UTF-8 conversion error")
        ELSE Ok(FromAscii(d.val))

to_base64url_header(c) == concat_struct_base64url_encode(concat_struct(c))

from_base64url_header(encoded_header) ==
    LET concat_str == concat_struct_base64url_decode(encoded_header)
    IN  IF ~concat_str.ok THEN concat_str
        ELSE from_concat_struct(concat_str.val)

-----------------------------------------------------------------------------
(* ed25519_dalek, idealised                                                *)

PUBLIC_KEY_LENGTH == 32

SECRET_KEY_LENGTH == 32

SIGNATURE_LENGTH == 64

\* SigningKey::verifying_key: the public key of a secret key.  Any fixed map
\* into the valid public keys serves; this one keeps the keys of the model
\* apart.
VerifyingKeyOf(sk) ==
    [i \in 1..PUBLIC_KEY_LENGTH |->
        IF i = 1 THEN 2 * (sk[1] % 128) ELSE (sk[i] + i) % 256]

\* VerifyingKey::from_bytes succeeds: the bytes decompress to a curve point.
\* About half of all byte strings do; the model takes those with an even
\* first byte.
IsCurvePoint(bytes) == Len(bytes) = PUBLIC_KEY_LENGTH /\ bytes[1] % 2 = 0

\* the bytes of the signature the ledger holds at index i
SignatureBytes(i) == [j \in 1..SIGNATURE_LENGTH |-> (7 * i + j) % 256]

\* the ledger index of the signature by sk of message (Ed25519 is
\* deterministic: signing again gives the same signature)
SignatureIndex(ledger, sk, message) ==
    IF \E i \in DOMAIN ledger : ledger[i] = <<sk, message>>
    THEN CHOOSE i \in DOMAIN ledger : ledger[i] = <<sk, message>>
    ELSE Len(ledger) + 1

\* the ledger after sk has signed message
Signed(ledger, sk, message) ==
    IF \E i \in DOMAIN ledger : ledger[i] = <<sk, message>> THEN ledger
    ELSE Append(ledger, <<sk, message>>)

\* SigningKey::sign
Sign(ledger, sk, message) == SignatureBytes(SignatureIndex(ledger, sk, message))

\* VerifyingKey::verify: the signature was made, for this message, by the
\* secret key of this public key
Verifies(ledger, pk, message, signature) ==
    \E i \in DOMAIN ledger :
        /\ SignatureBytes(i) = signature
        /\ ledger[i][2] = message
        /\ VerifyingKeyOf(ledger[i][1]) = pk

-----------------------------------------------------------------------------
(* crypto.rs: errors                                                       *)

CryptoError(kind, msg) == [ok |-> FALSE, err |-> kind, msg |-> msg]

-----------------------------------------------------------------------------
(* crypto.rs: the key material loader                                      *)

\* char::is_whitespace, on the characters of the model
IsWhitespace(c) == c \in {" ", "\t", "\n", "\r"}

\* matches!(c, 'A'..='Z' | 'a'..='z' | '0'..='9' | '+' | '/' | '=')
IsBase64Char(c) == c \in Range(STANDARD_ALPHABET) \/ c = "="

\* a plausible slip: only the space taken for whitespace
NotWhitespace_SpaceOnly(c) == c # " "

NotWhitespace(c) == ~IsWhitespace(c)

\* str::trim: leading and trailing whitespace removed
RECURSIVE TrimStart(_)
TrimStart(s) ==
    IF s # <<>> /\ IsWhitespace(Head(s)) THEN TrimStart(Tail(s)) ELSE s

RECURSIVE TrimEnd(_)
TrimEnd(s) ==
    IF s # <<>> /\ IsWhitespace(s[Len(s)]) THEN TrimEnd(SubSeq(s, 1, Len(s) - 1)) ELSE s

Trim(s) == TrimEnd(TrimStart(s))

STANDARD_decode(s) == Base64Decode(STANDARD_ALPHABET, TRUE, s)

STANDARD_encode(bytes) == Base64Encode(STANDARD_ALPHABET, TRUE, bytes)

SetMin(S) == CHOOSE x \in S : \A y \in S : x <= y

\* &key_bytes[start..start + 32], start counted from 0
KeyWindow(key_bytes, start) == SubSeq(key_bytes, start + 1, start + 32)

\* all zeros or all 0xFF
IsDegenerate(window) == window = Repeat(0, 32) \/ window = Repeat(255, 32)

\* remaining_data.windows(32).any(|window| window == public_bytes)
PublicKeyReappears(key_bytes, window_start) ==
    LET public_bytes == VerifyingKeyOf(KeyWindow(key_bytes, window_start))
        search_start == window_start + 32
    IN  /\ search_start < Len(key_bytes)
        /\ \E j \in search_start..(Len(key_bytes) - 32) :
               KeyWindow(key_bytes, j) = public_bytes

\* the windows the sliding scan looks at: 0..key_bytes.len().saturating_sub(32)
SlidingStarts(key_bytes) == 0..(Len(key_bytes) - 32 - 1)

\* the sliding scan returns the window at window_start
SlidingAccepts(key_bytes, is_private, window_start) ==
    LET window == KeyWindow(key_bytes, window_start)
    IN  /\ ~IsDegenerate(window)
        /\ IF is_private
           THEN \/ PublicKeyReappears(key_bytes, window_start)
                \/ window_start >= 20 /\ window_start <= 200
           ELSE /\ IsCurvePoint(window)
                /\ window_start >= 10 /\ window_start <= 100

\* the algorithm identifier of Ed25519 in a PGP packet
ED25519_ALGORITHM_ID == 22

\* the tag scan returns the 32 bytes after the tag at index i (from 0)
TagAccepts(key_bytes, is_private, i) ==
    /\ key_bytes[i + 1] = ED25519_ALGORITHM_ID
    /\ i + 33 < Len(key_bytes)
    /\ i + 1 + 32 <= Len(key_bytes)
    /\ (is_private \/ IsCurvePoint(KeyWindow(key_bytes, i + 1)))

common_offsets ==
    { 32, 36, 40, 44, 48, 52, 56, 60, 64, 68, 72, 76, 80, 84, 88, 92, 96, 100,
      104, 108, 112, 116, 120, 124, 128, 132, 136, 140, 144, 148, 152, 156, 160 }

\* the fixed-offset probe returns the window at offset
OffsetAccepts(key_bytes, is_private, offset) ==
    /\ offset + 32 <= Len(key_bytes)
    /\ ~IsDegenerate(KeyWindow(key_bytes, offset))
    /\ (is_private \/ IsCurvePoint(KeyWindow(key_bytes, offset)))

\* a plausible slip: the size left out of the message
PgpParsingFailed_NoSize(size) ==
    CryptoError("PgpParsingFailed",
        <<"Could not find valid Ed25519 key material in PGP data">>)

PgpParsingFailed(size) ==
    CryptoError("PgpParsingFailed",
        <<"Could not find valid Ed25519 key material in", size,
          "bytes of PGP data using multiple strategies">>)

\* a plausible slip: the raw-key branch never taken
IsRawKey_Never(key_bytes) == FALSE

\* key_bytes.len() == 32
IsRawKey(key_bytes) == Len(key_bytes) = 32

try_extract_ed25519_key(key_bytes, is_private) ==
    IF IsRawKey(key_bytes)
    THEN IF is_private \/ IsCurvePoint(key_bytes) THEN Ok(key_bytes)
         ELSE CryptoError("InvalidKeyFormat", "Invalid raw public key")
    ELSE IF Len(key_bytes) >= 32
    THEN LET sliding == {w \in SlidingStarts(key_bytes) :
                            SlidingAccepts(key_bytes, is_private, w)}
             tagged  == {i \in 0..(Len(key_bytes) - 1) :
                            TagAccepts(key_bytes, is_private, i)}
             probed  == {o \in common_offsets :
                            OffsetAccepts(key_bytes, is_private, o)}
         IN  IF sliding # {} THEN Ok(KeyWindow(key_bytes, SetMin(sliding)))
             ELSE IF tagged # {} THEN Ok(KeyWindow(key_bytes, SetMin(tagged) + 1))
             ELSE IF probed # {} THEN Ok(KeyWindow(key_bytes, SetMin(probed)))
             ELSE PgpParsingFailed(Len(key_bytes))
    ELSE PgpParsingFailed(Len(key_bytes))

\* the trimming loop: the longest non-empty prefix that decodes, 0 when none does
LongestDecodablePrefix(test_data) ==
    LET decodable == {k \in 1..Len(test_data) :
                         STANDARD_decode(SubSeq(test_data, 1, k)).ok}
    IN  IF decodable = {} THEN 0
        ELSE CHOOSE k \in decodable : \A j \in decodable : j <= k

parse_key_simple(key_data, is_private) ==
    LET cleaned_data == SelectSeq(key_data, NotWhitespace)
        fixed_data   == SelectSeq(cleaned_data, IsBase64Char)
        fixed        == STANDARD_decode(fixed_data)
        decoded      == STANDARD_decode(cleaned_data)
        kept         == LongestDecodablePrefix(cleaned_data)
    IN  IF fixed_data # cleaned_data /\ fixed.ok
        THEN try_extract_ed25519_key(fixed.val, is_private)
        ELSE IF decoded.ok THEN try_extract_ed25519_key(decoded.val, is_private)
        ELSE IF kept > 0
        THEN try_extract_ed25519_key(
                 STANDARD_decode(SubSeq(cleaned_data, 1, kept)).val, is_private)
        ELSE CryptoError("Base64DecodingFailed",
                 <<"Failed to decode cleaned key data", decoded.err>>)

\* a plausible slip: every failure of parse_key_simple sent to the fallback
FallsBack_Always(parsed) == TRUE

\* whether a failure of parse_key_simple sends the caller to the raw base64 fallback
FallsBack(parsed) == parsed.err \in {"PgpParsingFailed", "Base64DecodingFailed"}

\* a plausible slip: the fallback without its check of the length
LegacyRawKey_AnyLength(key_str, is_private) ==
    LET key_bytes == STANDARD_decode(Trim(key_str))
    IN  IF ~key_bytes.ok
        THEN CryptoError("Base64DecodingFailed", <<"legacy fallback", key_bytes.err>>)
        ELSE Ok(key_bytes.val)

\* the legacy fallback of the four loaders: the trimmed input as raw base64
LegacyRawKey(key_str, is_private) ==
    LET key_bytes == STANDARD_decode(Trim(key_str))
    IN  IF ~key_bytes.ok
        THEN CryptoError("Base64DecodingFailed", <<"legacy fallback", key_bytes.err>>)
        ELSE IF Len(key_bytes.val) # (IF is_private THEN SECRET_KEY_LENGTH
                                                    ELSE PUBLIC_KEY_LENGTH)
        THEN CryptoError("InvalidKeyFormat", <<"key length", Len(key_bytes.val)>>)
        ELSE IF ~is_private /\ ~IsCurvePoint(key_bytes.val)
        THEN CryptoError("InvalidKeyFormat", "Invalid public key")
        ELSE Ok(key_bytes.val)

load_private_key_from_data(key_data) ==
    LET parsed == parse_key_simple(key_data, TRUE)
    IN  IF parsed.ok THEN Ok(parsed.val)
        ELSE IF FallsBack(parsed) THEN LegacyRawKey(key_data, TRUE)
        ELSE parsed

load_public_key_from_data(key_data) ==
    LET parsed == parse_key_simple(key_data, FALSE)
    IN  IF parsed.ok
        THEN IF IsCurvePoint(parsed.val) THEN Ok(parsed.val)
             ELSE CryptoError("InvalidKeyFormat", "Invalid public key from PGP")
        ELSE IF FallsBack(parsed) THEN LegacyRawKey(key_data, FALSE)
        ELSE parsed

load_private_key_from_env(environment) ==
    IF environment.IRONSHIELD_PRIVATE_KEY = None
    THEN CryptoError("MissingEnvironmentVariable", "IRONSHIELD_PRIVATE_KEY")
    ELSE load_private_key_from_data(environment.IRONSHIELD_PRIVATE_KEY[1])

load_public_key_from_env(environment) ==
    IF environment.IRONSHIELD_PUBLIC_KEY = None
    THEN CryptoError("MissingEnvironmentVariable", "IRONSHIELD_PUBLIC_KEY")
    ELSE load_public_key_from_data(environment.IRONSHIELD_PUBLIC_KEY[1])

-----------------------------------------------------------------------------
(* crypto.rs: signing and verification                                     *)

\* a plausible slip: the nonce left out of the signed payload
create_signing_message_NoNonce(random_nonce, created_time, expiration_time, website_id, challenge_param, public_key) ==
    Join(<< FmtI64(created_time),
            FmtI64(expiration_time),
            website_id,
            HexEncode(challenge_param),
            HexEncode(public_key) >>, "|")

create_signing_message(random_nonce, created_time, expiration_time, website_id, challenge_param, public_key) ==
    Join(<< random_nonce,
            FmtI64(created_time),
            FmtI64(expiration_time),
            website_id,
            HexEncode(challenge_param),
            HexEncode(public_key) >>, "|")

\* a plausible slip: the advisory field signed as well
SigningMessageOf_WithAttempts(c) ==
    create_signing_message(c.random_nonce, c.created_time, c.expiration_time,
                           c.website_id, c.challenge_param, c.public_key)
    \o <<"|">> \o FmtU64(c.recommended_attempts)

\* the payload sign_challenge and the two verifiers build from a challenge
SigningMessageOf(c) ==
    create_signing_message(c.random_nonce, c.created_time, c.expiration_time,
                           c.website_id, c.challenge_param, c.public_key)

generate_signature(ledger, signing_key, message) ==
    Ok(Sign(ledger, signing_key, message))

sign_challenge(environment, ledger, c) ==
    LET signing_key == load_private_key_from_env(environment)
    IN  IF ~signing_key.ok THEN signing_key
        ELSE generate_signature(ledger, signing_key.val, SigningMessageOf(c))

\* the tail the two verifiers share: Signature::from_slice, then verify
VerifyWith(ledger, verifying_key, c) ==
    IF Len(c.challenge_signature) # SIGNATURE_LENGTH
    THEN CryptoError("InvalidKeyFormat", "Invalid signature format")
    ELSE IF ~Verifies(ledger, verifying_key, SigningMessageOf(c), c.challenge_signature)
    THEN CryptoError("VerificationFailed", "Signature verification failed")
    ELSE Ok(<<>>)

\* a plausible slip: the key the challenge itself carries
TrustedKey_Embedded(environment, c) == Ok(c.public_key)

\* the key verify_challenge_signature checks against
TrustedKey(environment, c) == load_public_key_from_env(environment)

verify_challenge_signature(environment, ledger, c) ==
    LET verifying_key == TrustedKey(environment, c)
    IN  IF ~verifying_key.ok THEN verifying_key
        ELSE VerifyWith(ledger, verifying_key.val, c)

verify_challenge_signature_with_key(ledger, c, public_key_bytes) ==
    IF ~IsCurvePoint(public_key_bytes)
    THEN CryptoError("InvalidKeyFormat", "Invalid public key")
    ELSE VerifyWith(ledger, public_key_bytes, c)

\* a plausible slip: the cheap checks made before the signature check
validate_challenge_SignatureLast(environment, ledger, clock, c) ==
    IF is_expired(c, clock)
    THEN CryptoError("VerificationFailed", "Challenge has expired")
    ELSE IF c.website_id = <<>>
    THEN CryptoError("VerificationFailed", "Empty website_id")
    ELSE verify_challenge_signature(environment, ledger, c)

\* a plausible slip: the expiry left out of the checks
validate_challenge_NoExpiry(environment, ledger, clock, c) ==
    LET verified == verify_challenge_signature(environment, ledger, c)
    IN  IF ~verified.ok THEN verified
        ELSE IF c.website_id = <<>>
        THEN CryptoError("VerificationFailed", "Empty website_id")
        ELSE Ok(<<>>)

validate_challenge(environment, ledger, clock, c) ==
    LET verified == verify_challenge_signature(environment, ledger, c)
    IN  IF ~verified.ok THEN verified
        ELSE IF is_expired(c, clock)
        THEN CryptoError("VerificationFailed", "Challenge has expired")
        ELSE IF c.website_id = <<>>
        THEN CryptoError("VerificationFailed", "Empty website_id")
        ELSE Ok(<<>>)

-----------------------------------------------------------------------------
(* challenge.rs: IronShieldChallenge::new                                  *)

\* a plausible slip: the all-zero substitute always taken
ConstructionSignature_Zero(ledger, private_key, signing_message) ==
    Repeat(0, SIGNATURE_LENGTH)

\* generate_signature(..).unwrap_or([0u8; 64])
ConstructionSignature(ledger, private_key, signing_message) ==
    LET signature == generate_signature(ledger, private_key, signing_message)
    IN  IF signature.ok THEN signature.val ELSE Repeat(0, SIGNATURE_LENGTH)

\* a plausible slip: the lifetime added in seconds to a clock in milliseconds
ExpirationOf_Seconds(created_time) == created_time + 30

\* created_time + 30_000
ExpirationOf(created_time) == created_time + VALIDITY_MS

\* the signing_message of new: the payload of the values new is about to store
new_signing_message(clock, random_bytes, website_id, difficulty, public_key) ==
    LET random_nonce    == generate_random_nonce(random_bytes)
        created_time    == clock
        expiration_time == ExpirationOf(created_time)
        challenge_param == difficulty_to_challenge_param(difficulty)
    IN  create_signing_message(random_nonce, created_time, expiration_time,
                               website_id, challenge_param.val, public_key)

\* IronShieldChallenge::new at clock reading `clock`, with random_bytes drawn
\* for the nonce: the challenge, or the panic of a zero difficulty
new(ledger, clock, random_bytes, website_id, difficulty, private_key, public_key) ==
    LET random_nonce    == generate_random_nonce(random_bytes)
        created_time    == clock
        expiration_time == ExpirationOf(created_time)
        challenge_param == difficulty_to_challenge_param(difficulty)
    IN  IF ~challenge_param.ok THEN challenge_param
        ELSE Ok(Challenge(random_nonce, created_time, expiration_time, website_id,
                          challenge_param.val,
                          FromLimbs(recommended_attempts(ToLimbs(difficulty))),
                          public_key,
                          ConstructionSignature(ledger, private_key,
                              new_signing_message(clock, random_bytes, website_id,
                                                  difficulty, public_key))))

-----------------------------------------------------------------------------
(* The inputs of the model                                                 *)

\* the clock reading the model starts at
Epoch == 1000000

\* the clock readings of the model: the start, the expiration instant of a
\* challenge made at the start, and the instant after it
Instants == {Epoch, Epoch + VALIDITY_MS, Epoch + VALIDITY_MS + 1}

\* SigningKey::from_bytes(&[1; 32]) and SigningKey::from_bytes(&[2; 32])
SecretKeys == {Repeat(1, SECRET_KEY_LENGTH), Repeat(2, SECRET_KEY_LENGTH)}

\* what rand::random::<[u8; 16]>() may return
RandomBytes == {Repeat(171, 16)}

WebsiteIds == {<<>>, <<"e", "x">>}

\* the difficulties given to IronShieldChallenge::new
NewDifficulties == {0, 2}

\* the difficulties of the tests of challenge.rs
TestedDifficulties == {10000, 50000, 100000, 1000000, 10000000}

\* the power-of-two difficulties of test_difficulty_to_challenge_param_basic_cases,
\* and those beyond them
PowerOfTwoDifficulties == {Pow2(k) : k \in 1..MaxExponent}

\* the difficulties given to recommended_attempts: those of
\* test_recommended_attempts, u64::MAX and its neighbours, and the values
\* around the point where the product stops fitting
WideDifficulties ==
    { ToLimbs(0), ToLimbs(1), ToLimbs(1000), ToLimbs(50000), ToLimbs(32768),
      <<0, 32768, 0, 0>>, <<65535, 65535, 0, 0>>, <<0, 0, 1, 0>>,
      <<65535, 65535, 65535, 32767>>, <<0, 0, 0, 32768>>, <<1, 0, 0, 32768>>,
      <<65534, 65535, 65535, 65535>>, U64MaxLimbs }

Difficulties == (0..MaxDifficulty) \cup TestedDifficulties \cup PowerOfTwoDifficulties

NoEnv == [IRONSHIELD_PRIVATE_KEY |-> None, IRONSHIELD_PUBLIC_KEY |-> None]

\* the environment as the tests set it from a key pair
KeyPairEnv(sk) ==
    [IRONSHIELD_PRIVATE_KEY |-> Some(STANDARD_encode(sk)),
     IRONSHIELD_PUBLIC_KEY  |-> Some(STANDARD_encode(VerifyingKeyOf(sk)))]

\* "invalid-base64!", the value of test_invalid_key_format
InvalidKeyText ==
    <<"i", "n", "v", "a", "l", "i", "d", "-", "b", "a", "s", "e", "6", "4", "!">>

InvalidEnv ==
    [IRONSHIELD_PRIVATE_KEY |-> Some(InvalidKeyText),
     IRONSHIELD_PUBLIC_KEY  |-> Some(InvalidKeyText)]

Environments == {KeyPairEnv(sk) : sk \in SecretKeys}

SignedFields ==
    {"random_nonce", "created_time", "expiration_time", "website_id",
     "challenge_param", "public_key"}

ChallengeFields == SignedFields \cup {"recommended_attempts", "challenge_signature"}

\* the values a caller may write into a field of the challenge it holds
FieldValues(field) ==
    CASE field = "random_nonce" ->
            {<<"t", "a", "m", "p", "e", "r", "e", "d">>}
      [] field = "created_time" -> {Epoch - 1}
      [] field = "expiration_time" -> {Epoch + 2 * VALIDITY_MS}
      [] field = "website_id" -> {<<>>, <<"e", "v", "i", "l">>}
      [] field = "challenge_param" -> {Repeat(MAX_BYTE_VALUE, ARRAY_SIZE)}
      [] field = "recommended_attempts" -> {7}
      [] field = "public_key" -> {VerifyingKeyOf(sk) : sk \in SecretKeys}
      [] field = "challenge_signature" ->
            {Repeat(0, SIGNATURE_LENGTH)}

-----------------------------------------------------------------------------
(* The state machine: a caller of the library                              *)

NoOp == [op |-> "none"]

\* no call of parse_key_simple is in progress
NotRunning == [phase |-> "none"]

\* the tests of crypto.rs that write the environment and read it back; the
\* test harness runs each on a thread of its own
Tests ==
    { "test_load_keys_from_env", "test_challenge_signing_and_verification",
      "test_missing_environment_variables" }

\* the calls of each test that touch ENV_MUTEX or the environment, in order
\* (verify_challenge_signature is where the second test loads the public key)
Program(test) ==
    CASE test = "test_load_keys_from_env" ->
            <<"lock", "set_private", "set_public", "load_private", "load_public", "unlock">>
      [] test = "test_challenge_signing_and_verification" ->
            <<"lock", "set_private", "set_public", "load_public", "unlock">>
      [] test = "test_missing_environment_variables" ->
            <<"lock", "remove_private", "remove_public", "load_private", "load_public", "unlock">>

\* SigningKey::generate(&mut OsRng) of each test that writes keys
KeyOfTest(test) ==
    IF test = "test_load_keys_from_env" THEN Repeat(1, SECRET_KEY_LENGTH)
    ELSE Repeat(2, SECRET_KEY_LENGTH)

NothingLoaded == [private |-> None, public |-> None]

\* no test is running
NoTests ==
    /\ ENV_MUTEX = None
    /\ pc = [t \in Tests |-> 0]
    /\ loaded = [t \in Tests |-> NothingLoaded]
    /\ locking = TRUE

Idle ==
    /\ NoTests
    /\ now = Epoch
    /\ env = NoEnv
    /\ challenge = None
    /\ issued = None
    /\ sigs = <<>>
    /\ last = NoOp
    /\ prev = NoOp
    /\ run = NotRunning

Init == Idle

\* env::set_var of both variables, as the tests do under ENV_MUTEX
SetEnv(e) ==
    /\ env # e
    /\ env' = e
    /\ last' = NoOp
    /\ UNCHANGED <<now, challenge, issued, sigs, prev, testVars, run>>

\* env::remove_var of both variables
RemoveEnv ==
    /\ env # NoEnv
    /\ env' = NoEnv
    /\ last' = NoOp
    /\ UNCHANGED <<now, challenge, issued, sigs, prev, testVars, run>>

\* time passes: the clock never runs backwards
Advance(t) ==
    /\ t > now
    /\ now' = t
    /\ last' = NoOp
    /\ UNCHANGED <<env, challenge, issued, sigs, prev, testVars, run>>

\* the challenge the caller holds, and the record of its issue
Held == challenge[1]

Issued == issued[1]

\* IronShieldChallenge::new(website_id, difficulty, private_key, public_key).
\* A behaviour follows one challenge: new is called while none is held.
New(random_bytes, website_id, difficulty, private_key, public_key) ==
    LET made == new(sigs, now, random_bytes, website_id, difficulty,
                    private_key, public_key)
    IN  /\ challenge = None
        /\ last' = [op |-> "new", difficulty |-> difficulty,
                    private_key |-> private_key, res |-> made]
        /\ IF made.ok
           THEN /\ challenge' = Some(made.val)
                /\ issued' = Some([challenge |-> made.val, private_key |-> private_key])
                /\ sigs' = Signed(sigs, private_key,
                                  new_signing_message(now, random_bytes, website_id,
                                                      difficulty, public_key))
           ELSE UNCHANGED <<challenge, issued, sigs>>
        /\ UNCHANGED <<now, env, prev, testVars, run>>

\* the caller rewrites one field of the challenge it was issued
Tamper(field, value) ==
    /\ challenge # None
    /\ Held = Issued.challenge
    /\ Held[field] # value
    /\ challenge' = Some([Held EXCEPT ![field] = value])
    /\ last' = NoOp
    /\ UNCHANGED <<now, env, issued, sigs, prev, testVars, run>>

VerifyChallengeSignature ==
    /\ challenge # None
    /\ last' = [op |-> "verify_challenge_signature",
                res |-> verify_challenge_signature(env, sigs, Held)]
    /\ UNCHANGED <<now, env, challenge, issued, sigs, prev, testVars, run>>

VerifyChallengeSignatureWithKey(public_key_bytes) ==
    /\ challenge # None
    /\ last' = [op |-> "verify_challenge_signature_with_key",
                key |-> public_key_bytes,
                res |-> verify_challenge_signature_with_key(sigs, Held,
                                                            public_key_bytes)]
    /\ UNCHANGED <<now, env, challenge, issued, sigs, prev, testVars, run>>

ValidateChallenge ==
    /\ challenge # None
    /\ last' = [op |-> "validate_challenge",
                res |-> validate_challenge(env, sigs, now, Held)]
    /\ UNCHANGED <<now, env, challenge, issued, sigs, prev, testVars, run>>

\* sign_challenge(&challenge).  The signature is held in `last` alone: no
\* operation of the model verifies it, so the ledger does not keep it.
SignChallenge ==
    /\ challenge # None
    /\ last' = [op |-> "sign_challenge", res |-> sign_challenge(env, sigs, Held)]
    /\ UNCHANGED <<now, env, challenge, issued, sigs, prev, testVars, run>>

\* challenge.is_expired()
IsExpired ==
    /\ challenge # None
    /\ last' = [op |-> "is_expired", res |-> is_expired(Held, now)]
    /\ UNCHANGED <<now, env, challenge, issued, sigs, prev, testVars, run>>

\* challenge.time_until_expiration()
TimeUntilExpiration ==
    /\ challenge # None
    /\ last' = [op |-> "time_until_expiration",
                res |-> time_until_expiration(Held, now)]
    /\ UNCHANGED <<now, env, challenge, issued, sigs, prev, testVars, run>>

DifficultyToChallengeParam(difficulty) ==
    /\ last' = [op |-> "difficulty_to_challenge_param", difficulty |-> difficulty,
                res |-> difficulty_to_challenge_param(difficulty)]
    /\ prev' = last
    /\ UNCHANGED <<now, env, challenge, issued, sigs, testVars, run>>

Next ==
    \/ \E e \in Environments : SetEnv(e)
    \/ RemoveEnv
    \/ \E t \in Instants : Advance(t)
    \/ \E rb \in RandomBytes, w \in WebsiteIds, d \in NewDifficulties,
          sk \in SecretKeys, pk \in {VerifyingKeyOf(k) : k \in SecretKeys} :
          New(rb, w, d, sk, pk)
    \/ \E f \in ChallengeFields : \E v \in FieldValues(f) : Tamper(f, v)
    \/ VerifyChallengeSignature
    \/ \E pk \in {VerifyingKeyOf(k) : k \in SecretKeys} : VerifyChallengeSignatureWithKey(pk)
    \/ ValidateChallenge
    \/ SignChallenge
    \/ IsExpired
    \/ TimeUntilExpiration

Spec == Init /\ [][Next]_vars

\* the difficulty -> threshold function, called on its own and by new
InitParam == Idle

RecommendedAttempts(difficulty) ==
    /\ last' = [op |-> "recommended_attempts", difficulty |-> difficulty,
                res |-> recommended_attempts(difficulty)]
    /\ UNCHANGED <<now, env, challenge, issued, sigs, prev, testVars, run>>

NextParam ==
    \/ \E d \in Difficulties : DifficultyToChallengeParam(d)
    \/ \E d \in WideDifficulties : RecommendedAttempts(d)
    \/ \E rb \in RandomBytes, d \in NewDifficulties, sk \in SecretKeys :
          New(rb, <<"e", "x">>, d, sk, VerifyingKeyOf(sk))

SpecParam == InitParam /\ [][NextParam]_vars

-----------------------------------------------------------------------------
(* Signatures: tampering, the trusted key, validation and construction     *)

\* the fields in which the held challenge differs from the issued one
ChangedFields == {f \in ChallengeFields : Held[f] # Issued.challenge[f]}

\* the environment names the key pair of the key that signed the challenge
ConfiguredKeyIsSigner == env = KeyPairEnv(Issued.private_key)

\* the held challenge carries the signature it was issued with, over the
\* signed fields it was issued with, and the configured key is the signer's
SignatureStands ==
    /\ ConfiguredKeyIsSigner
    /\ ChangedFields \subseteq {"recommended_attempts"}

VerificationFailed(res) == ~res.ok /\ res.err = "VerificationFailed"

\* C2: a validly signed challenge with one signed field changed to another
\* value and its signature kept fails verification against the original key
\* with VerificationFailed, under verify_challenge_signature and under
\* verify_challenge_signature_with_key.
TamperDetected ==
    ( /\ challenge # None
      /\ \E f \in SignedFields : ChangedFields = {f} )
    => /\ (last.op = "verify_challenge_signature" /\ ConfiguredKeyIsSigner)
          => VerificationFailed(last.res)
       /\ ( /\ last.op = "verify_challenge_signature_with_key"
            /\ last.key = VerifyingKeyOf(Issued.private_key) )
          => VerificationFailed(last.res)

\* the website_id rewritten after signing, verified against the signer's key
TamperDetectedWitness ==
    /\ challenge # None
    /\ ChangedFields = {"website_id"}
    /\ ConfiguredKeyIsSigner
    /\ last.op = "verify_challenge_signature"
    /\ VerificationFailed(last.res)

\* C3: verify_challenge_signature, and validate_challenge with it, checks
\* against the configured key and never against the embedded public_key: a
\* challenge signed by a key other than the configured one, which embeds the
\* public key of its signer, is rejected by both although
\* verify_challenge_signature_with_key(c, c.public_key) accepts it.
EmbeddedKeyNotTrusted ==
    ( /\ challenge # None
      /\ ChangedFields = {}
      /\ Held.public_key = VerifyingKeyOf(Issued.private_key)
      /\ \E k \in SecretKeys : k # Issued.private_key /\ env = KeyPairEnv(k) )
    => /\ last.op = "verify_challenge_signature" => VerificationFailed(last.res)
       /\ last.op = "validate_challenge"
          => /\ VerificationFailed(last.res)
             /\ last.res.msg = "Signature verification failed"
       /\ ( /\ last.op = "verify_challenge_signature_with_key"
            /\ last.key = Held.public_key )
          => last.res.ok

\* a self-consistent challenge of a key that is not the configured one,
\* rejected by verify_challenge_signature
EmbeddedKeyNotTrustedWitness ==
    /\ challenge # None
    /\ ChangedFields = {}
    /\ Held.public_key = VerifyingKeyOf(Issued.private_key)
    /\ env \in Environments
    /\ ~ConfiguredKeyIsSigner
    /\ last.op = "verify_challenge_signature"
    /\ VerificationFailed(last.res)

\* C4: validate_challenge checks the signature, then expiry, then the
\* website_id, and returns the error of the first check that fails: with a
\* signature that does not verify the error is the signature or key error
\* even if the challenge is expired or its website_id empty, and an expired
\* challenge with a good signature reports "Challenge has expired" even if
\* its website_id is empty.
ValidateOrder ==
    last.op = "validate_challenge"
    => /\ ~SignatureStands
          => /\ ~last.res.ok
             /\ last.res.msg \notin {"Challenge has expired", "Empty website_id"}
       /\ (SignatureStands /\ now > Held.expiration_time)
          => last.res = CryptoError("VerificationFailed", "Challenge has expired")
       /\ (SignatureStands /\ now <= Held.expiration_time /\ Held.website_id = <<>>)
          => last.res = CryptoError("VerificationFailed", "Empty website_id")

\* a tampered, expired challenge with an empty website_id: the signature
\* error is the one returned
ValidateOrderWitness ==
    /\ last.op = "validate_challenge"
    /\ ConfiguredKeyIsSigner
    /\ ChangedFields = {"random_nonce"}
    /\ now > Held.expiration_time
    /\ Held.website_id = <<>>
    /\ last.res = CryptoError("VerificationFailed", "Signature verification failed")

\* C5: validate_challenge returns Ok exactly when the signature verifies
\* under the configured public key, the clock is not past expiration_time
\* and website_id is not empty; a challenge past its expiration_time reports
\* is_expired and is rejected although its signature is correct.
ValidateOkIff ==
    last.op = "validate_challenge"
    => /\ last.res.ok <=> /\ SignatureStands
                          /\ now <= Held.expiration_time
                          /\ Held.website_id # <<>>
       /\ (SignatureStands /\ now > Held.expiration_time)
          => is_expired(Held, now) /\ ~last.res.ok

\* a correctly signed challenge with a website_id, validated after its
\* expiration_time
ValidateOkIffWitness ==
    /\ last.op = "validate_challenge"
    /\ SignatureStands
    /\ Held.website_id # <<>>
    /\ now > Held.expiration_time
    /\ is_expired(Held, now)
    /\ ~last.res.ok

\* C6: new with a difficulty of at least 1 and public_key the verifying key
\* of the signing key returns a challenge signed by that key over the payload
\* of its own fields, never the all-zero substitute:
\* verify_challenge_signature_with_key(c, public_key) is Ok, and so is
\* verify_challenge_signature(c) when that key is the configured one.
NewIsSigned ==
    /\ (last.op = "new" /\ last.difficulty >= 1)
       => /\ last.res.ok
          /\ challenge = Some(last.res.val)
          /\ Held.challenge_signature # Repeat(0, SIGNATURE_LENGTH)
          /\ Verifies(sigs, VerifyingKeyOf(last.private_key),
                      SigningMessageOf(Held), Held.challenge_signature)
    /\ ( /\ challenge # None
         /\ ChangedFields = {}
         /\ Held.public_key = VerifyingKeyOf(Issued.private_key) )
       => /\ ( /\ last.op = "verify_challenge_signature_with_key"
               /\ last.key = Held.public_key )
             => last.res.ok
          /\ (last.op = "verify_challenge_signature" /\ ConfiguredKeyIsSigner)
             => last.res.ok

\* a challenge as new made it, accepted under its own public key
NewIsSignedWitness ==
    /\ challenge # None
    /\ ChangedFields = {}
    /\ Held.public_key = VerifyingKeyOf(Issued.private_key)
    /\ last.op = "verify_challenge_signature_with_key"
    /\ last.key = Held.public_key
    /\ last.res.ok

\* the signed payload written out field by field
CanonicalPayload(c) ==
    c.random_nonce \o <<"|">> \o FmtI64(c.created_time) \o <<"|">>
    \o FmtI64(c.expiration_time) \o <<"|">> \o c.website_id \o <<"|">>
    \o HexEncode(c.challenge_param) \o <<"|">> \o HexEncode(c.public_key)

-----------------------------------------------------------------------------
(* The wire format: a challenge value written out and read back            *)

\* the field values of the challenges written out: empty and separator-
\* bearing strings, negative and zero timestamps, all-zero and all-one arrays
WireNonces == {<<>>, <<"a", "b", "a", "b">>, <<"a", "|", "b">>}

WireTimes == {-5, 0, Epoch}

WireWebsiteIds == {<<>>, <<"e", "x", ".", "c", "o", "m">>, <<"e", "|", "x">>}

WireParams == {Repeat(0, ARRAY_SIZE), Repeat(MAX_BYTE_VALUE, ARRAY_SIZE)}

WireAttempts == {0, 20000}

WireKeys == {Repeat(0, PUBLIC_KEY_LENGTH), VerifyingKeyOf(Repeat(1, SECRET_KEY_LENGTH))}

WireSignatures == {Repeat(0, SIGNATURE_LENGTH), SignatureBytes(1)}

WireChallenges ==
    { Challenge(n, t, t + VALIDITY_MS, w, p, a, k, g) :
        n \in WireNonces, t \in WireTimes, w \in WireWebsiteIds,
        p \in WireParams, a \in WireAttempts, k \in WireKeys,
        g \in WireSignatures }

\* a caller that holds some challenge value and nothing else
InitWire ==
    /\ NoTests
    /\ now = Epoch
    /\ env = NoEnv
    /\ challenge \in {Some(c) : c \in WireChallenges}
    /\ issued = None
    /\ sigs = <<>>
    /\ last = NoOp
    /\ prev = NoOp
    /\ run = NotRunning

ConcatStruct ==
    /\ challenge # None
    /\ last' = [op |-> "concat_struct", res |-> concat_struct(Held)]
    /\ UNCHANGED <<now, env, challenge, issued, sigs, prev, testVars, run>>

\* from_concat_struct on the string concat_struct has just returned
FromConcatStruct ==
    /\ last.op = "concat_struct"
    /\ last' = [op |-> "from_concat_struct", input |-> last.res,
                res |-> from_concat_struct(last.res)]
    /\ UNCHANGED <<now, env, challenge, issued, sigs, prev, testVars, run>>

ToBase64urlHeader ==
    /\ challenge # None
    /\ last' = [op |-> "to_base64url_header", res |-> to_base64url_header(Held)]
    /\ UNCHANGED <<now, env, challenge, issued, sigs, prev, testVars, run>>

\* from_base64url_header on the header to_base64url_header has just returned
FromBase64urlHeader ==
    /\ last.op = "to_base64url_header"
    /\ last' = [op |-> "from_base64url_header", input |-> last.res,
                res |-> from_base64url_header(last.res)]
    /\ UNCHANGED <<now, env, challenge, issued, sigs, prev, testVars, run>>

NextWire ==
    \/ ConcatStruct
    \/ FromConcatStruct
    \/ ToBase64urlHeader
    \/ FromBase64urlHeader

SpecWire == InitWire /\ [][NextWire]_vars

-----------------------------------------------------------------------------
(* The round trip of the wire format                                       *)

HasSeparator(c) == "|" \in Range(c.random_nonce) \cup Range(c.website_id)

\* C1: a challenge whose random_nonce and website_id hold no '|' comes back
\* equal in every field, recommended_attempts and the signature bytes
\* included, from from_base64url_header(to_base64url_header(c)) and from
\* from_concat_struct(concat_struct(c)).
RoundTripExact ==
    /\ ( /\ last.op = "from_base64url_header"
         /\ last.input = to_base64url_header(Held)
         /\ ~HasSeparator(Held) )
       => last.res = Ok(Held)
    /\ ( /\ last.op = "from_concat_struct"
         /\ last.input = concat_struct(Held)
         /\ ~HasSeparator(Held) )
       => last.res = Ok(Held)

\* a header read back into a challenge with an empty website_id, a negative
\* created_time and a signature that is not all zero
RoundTripExactWitness ==
    /\ last.op = "from_base64url_header"
    /\ last.res.ok
    /\ last.res.val = Held
    /\ Held.website_id = <<>>
    /\ Held.random_nonce # <<>>
    /\ Held.created_time < 0
    /\ Held.recommended_attempts > 0
    /\ Held.challenge_signature # Repeat(0, SIGNATURE_LENGTH)

-----------------------------------------------------------------------------
(* The difficulty -> threshold function                                    *)

IsParamCall(call) == call.op = "difficulty_to_challenge_param"

\* [u8; 32] comparison (lexicographic, which for arrays of one length is the
\* comparison of the big-endian numbers): a <= b
BytesLeq(a, b) ==
    \/ a = b
    \/ \E i \in DOMAIN a :
          /\ a[i] < b[i]
          /\ \A j \in 1..(i - 1) : a[j] = b[j]

\* the array whose only set bit is bit b, bit 0 being the least significant
\* bit of the last byte
SingleBitArray(b) ==
    [i \in 1..ARRAY_SIZE |->
        IF i = ((255 - b) \div 8) + 1 THEN Pow2(7 - ((255 - b) % 8)) ELSE 0]

\* C8: for difficulties d1 <= d2, both at least 1, the threshold of d2 is at
\* most the threshold of d1 as a 32-byte big-endian number.
ThresholdMonotone ==
    ( /\ IsParamCall(prev)
      /\ IsParamCall(last)
      /\ 1 <= prev.difficulty
      /\ prev.difficulty <= last.difficulty )
    => /\ prev.res.ok
       /\ last.res.ok
       /\ BytesLeq(last.res.val, prev.res.val)

\* two calls in a row, the second with the larger difficulty and the strictly
\* smaller threshold
ThresholdMonotoneWitness ==
    /\ IsParamCall(prev)
    /\ IsParamCall(last)
    /\ 1 <= prev.difficulty
    /\ prev.difficulty < last.difficulty
    /\ last.res.ok
    /\ prev.res.ok
    /\ last.res.val # prev.res.val
    /\ BytesLeq(last.res.val, prev.res.val)

\* C9: for a difficulty D above 1 the threshold has exactly one set bit, at
\* position b = round(256 - log2 D) counted from the least significant bit,
\* stored in byte (255 - b) / 8 at bit 7 - ((255 - b) mod 8).  k = 256 - b is
\* the nearest integer to log2 D exactly when 2^(2k-1) <= D^2 <= 2^(2k+1);
\* the squares are compared where they fit TLC's integers.
\* D = 10,000 sets bit 243 (byte 1 = 0x08), D = 100,000 bit 239 (byte 2 = 0x80).
ThresholdSingleBit ==
    (IsParamCall(last) /\ last.difficulty > 1)
    => /\ last.res.ok
       /\ \E b \in 0..MAX_BIT_POSITION :
            /\ last.res.val = SingleBitArray(b)
            /\ b = BitPosition(last.difficulty)
            /\ last.difficulty <= 10000
               => /\ Pow2(2 * (256 - b) - 1) <= last.difficulty * last.difficulty
                  /\ last.difficulty * last.difficulty <= Pow2(2 * (256 - b) + 1)
            /\ last.difficulty = 10000 => b = 243 /\ last.res.val[2] = 8
            /\ last.difficulty = 100000 => b = 239 /\ last.res.val[3] = 128

\* the threshold of difficulty 100,000
ThresholdSingleBitWitness ==
    /\ IsParamCall(last)
    /\ last.difficulty = 100000
    /\ last.res.ok
    /\ last.res.val = SingleBitArray(239)

\* C10: difficulty_to_challenge_param(0) panics with "Difficulty cannot be
\* zero." instead of acting as for difficulty 1, and new with difficulty 0
\* panics likewise and returns no challenge.
ZeroDifficultyPanics ==
    /\ (IsParamCall(last) /\ last.difficulty = 0)
       => /\ last.res = Panic("Difficulty cannot be zero.")
          /\ last.res # difficulty_to_challenge_param(1)
    /\ (last.op = "new" /\ last.difficulty = 0)
       => /\ last.res = Panic("Difficulty cannot be zero.")
          /\ challenge = None

\* new has been called with difficulty 0 and no challenge is held
ZeroDifficultyPanicsWitness ==
    /\ last.op = "new"
    /\ last.difficulty = 0
    /\ ~last.res.ok
    /\ challenge = None
    /\ IsParamCall(prev)
    /\ prev.difficulty = 0
    /\ ~prev.res.ok

\* C11: difficulty 1 gives the largest threshold, all 32 bytes 0xFF, and
\* every difficulty above 1 gives a threshold that is neither all 0xFF nor
\* all zero: the threshold is all 0xFF exactly for difficulty 1.
ThresholdExtremes ==
    (IsParamCall(last) /\ last.difficulty >= 1)
    => /\ last.res.ok
       /\ last.res.val = Repeat(255, 32) <=> last.difficulty = 1
       /\ last.res.val # Repeat(0, 32)
       /\ \A i \in 1..32 : last.res.val[i] \in 0..255

\* the threshold of difficulty 2, the nearest to the maximum
ThresholdExtremesWitness ==
    /\ IsParamCall(last)
    /\ last.difficulty = 2
    /\ last.res.ok
    /\ last.res.val # Repeat(255, 32)
    /\ last.res.val # Repeat(0, 32)
    /\ IsParamCall(prev)
    /\ prev.difficulty = 1
    /\ prev.res.val = Repeat(255, 32)

\* C12: for a power-of-two difficulty 2^k the threshold is 2^256 / 2^k
\* exactly, the value whose only set bit is bit 256 - k: difficulty 2 gives
\* 0x80, 4 gives 0x40 and 256 gives 0x01 in byte 0, every other byte zero.
PowerOfTwoExact ==
    IsParamCall(last)
    => /\ \A k \in 1..MaxExponent :
            last.difficulty = Pow2(k) => last.res = Ok(SingleBitArray(256 - k))
       /\ last.difficulty = 2
          => last.res.val = <<128>> \o Repeat(0, 31)
       /\ last.difficulty = 4
          => last.res.val = <<64>> \o Repeat(0, 31)
       /\ last.difficulty = 256
          => last.res.val = <<1>> \o Repeat(0, 31)

\* the threshold of difficulty 256
PowerOfTwoExactWitness ==
    /\ IsParamCall(last)
    /\ last.difficulty = 256
    /\ last.res = Ok(<<1>> \o Repeat(0, 31))

\* half of a u64 given by its limbs, the remainder dropped
HalfLimbs(w) ==
    [i \in 1..4 |-> (w[i] \div 2) + (IF i < 4 /\ w[i + 1] % 2 = 1 THEN 32768 ELSE 0)]

-----------------------------------------------------------------------------
(* The lifetime new gives a challenge                                      *)

\* C14: a challenge new returns has created_time the clock reading taken
\* during construction and expiration_time = created_time + 30,000, and its
\* signature is over the payload that holds these two stored values.
LifetimeSigned ==
    /\ (last.op = "new" /\ last.res.ok)
       => /\ challenge = Some(last.res.val)
          /\ Held.created_time = now
          /\ Held.expiration_time = Held.created_time + 30000
          /\ \E i \in DOMAIN sigs :
                /\ SignatureBytes(i) = Held.challenge_signature
                /\ sigs[i] = <<last.private_key, CanonicalPayload(Held)>>
    /\ challenge # None
       => Issued.challenge.expiration_time = Issued.challenge.created_time + 30000

\* a challenge made at the expiration instant of the first clock reading
LifetimeSignedWitness ==
    /\ last.op = "new"
    /\ last.res.ok
    /\ now = Epoch + VALIDITY_MS
    /\ Held.created_time = Epoch + VALIDITY_MS
    /\ Held.expiration_time = Epoch + 2 * VALIDITY_MS

-----------------------------------------------------------------------------
(* Parsing: from_concat_struct on well-formed and malformed text           *)

\* the texts given for each part: well-formed ones, and ones that are empty,
\* signed, out of range, of odd length, not hex, too short and too long
ParseNonces == {<<"a", "b">>}

ParseCreatedTimes ==
    { <<"1", "0", "0", "0">>, <<"-", "5">>, <<"+", "5">>, <<>>, <<"1", "x">>,
      <<"9", "2", "2", "3", "3", "7", "2", "0", "3", "6", "8", "5", "4", "7",
        "7", "5", "8", "0", "8">> }

ParseExpirationTimes == {<<"3", "1", "0", "0", "0">>, <<"1", ".", "5">>}

ParseWebsiteIds == {<<"e", "x">>}

ParseArrays(n) ==
    { Repeat("0", 2 * n), Repeat("F", 2 * n), Repeat("0", 2 * n - 2),
      Repeat("0", 2 * n + 2), Repeat("0", 2 * n - 1),
      <<"z", "z">> \o Repeat("0", 2 * n - 2) }

ParseAttempts ==
    { <<"4">>, <<"-", "1">>, <<>>,
      <<"1", "8", "4", "4", "6", "7", "4", "4", "0", "7", "3", "7", "0", "9",
        "5", "5", "1", "6", "1", "6">> }

ParsePublicKeys == {Repeat("0", 64), Repeat("0", 62), Repeat("0", 63)}

ParseSignatures ==
    { Repeat("0", 128), Repeat("0", 64), Repeat("0", 130), Repeat("g", 128) }

\* the eight parts of a text, and texts of one, seven and nine parts
ParseFields ==
    { <<n, c, e, w, p, a, k, g>> :
        n \in ParseNonces, c \in ParseCreatedTimes, e \in ParseExpirationTimes,
        w \in ParseWebsiteIds, p \in ParseArrays(32), a \in ParseAttempts,
        k \in ParsePublicKeys, g \in ParseSignatures }
    \cup { <<>>, <<<<>>>>,
           <<<<"a">>, <<"1">>, <<"2">>, <<"e">>, Repeat("0", 64), <<"4">>, Repeat("0", 64)>>,
           <<<<"a">>, <<"1">>, <<"2">>, <<"e">>, Repeat("0", 64), <<"4">>, Repeat("0", 64),
             Repeat("0", 128), <<>>>> }

\* a text made of the given parts arrives
InitParse ==
    /\ NoTests
    /\ now = Epoch
    /\ env = NoEnv
    /\ challenge = None
    /\ issued = None
    /\ sigs = <<>>
    /\ last \in {[op |-> "text", fields |-> fields] : fields \in ParseFields}
    /\ prev = NoOp
    /\ run = NotRunning

\* from_concat_struct on the text that arrived
ParseConcat ==
    /\ last.op = "text"
    /\ last' = [op |-> "from_concat_struct", fields |-> last.fields,
                input |-> Join(last.fields, "|"),
                res |-> from_concat_struct(Join(last.fields, "|"))]
    /\ UNCHANGED <<now, env, challenge, issued, sigs, prev, testVars, run>>

NextParse == ParseConcat

SpecParse == InitParse /\ [][NextParse]_vars

\* the number of parts the separators cut a text into
PartCount(str) == Cardinality({i \in DOMAIN str : str[i] = "|"}) + 1

HexOfLength(part, n) == HexDecode(part).ok /\ Len(HexDecode(part).val) = n

\* the parts of an eight-part text that do not pass their check
FailingParts(fields) ==
    {i \in {2, 3} : ~ParseI64(fields[i]).ok}
    \cup {i \in {5, 7} : ~HexOfLength(fields[i], 32)}
    \cup {i \in {6} : ~ParseU64(fields[i]).ok}
    \cup {i \in {8} : ~HexOfLength(fields[i], 64)}

\* the part an error message names
PartNamed(message) ==
    CASE message = "Failed to parse created_time as i64" -> 2
      [] message = "Failed to parse expiration_time as i64" -> 3
      [] message \in {"Failed to decode challenge_params hex string",
                      "Challenge params must be exactly 32 bytes"} -> 5
      [] message = "Failed to parse recommended_attempts as u64" -> 6
      [] message \in {"Failed to decode public_key hex string",
                      "Public key must be exactly 32 bytes"} -> 7
      [] message \in {"Failed to decode challenge_signature hex string",
                      "Signature must be exactly 64 bytes"} -> 8
      [] OTHER -> 0

-----------------------------------------------------------------------------
(* Key loading: the loaders of crypto.rs on raw keys and on larger blobs   *)

\* a window that is a valid key of either kind and is not degenerate
KeyMaterial == [i \in 1..32 |-> 100 + 2 * i]

\* a window no public key can be: its first byte is odd
NotAPoint == [i \in 1..32 |-> 101 + 2 * i]

\* the decoded blobs: raw keys, blobs below 32 bytes, blobs with the
\* algorithm tag at the end, at the start and in the middle, blobs of
\* degenerate windows only, a key at the first fixed offset, blobs whose
\* only acceptable window is the last one, a private key followed by its
\* public key, at the start of the blob and after a header of 30 bytes
KeyBlobs ==
    { Repeat(1, 32), VerifyingKeyOf(Repeat(1, 32)), KeyMaterial, NotAPoint,
      <<>>, <<255>>, Repeat(7, 16), Repeat(7, 31),
      <<ED25519_ALGORITHM_ID>> \o KeyMaterial,
      <<ED25519_ALGORITHM_ID>> \o KeyMaterial \o <<0>>,
      <<ED25519_ALGORITHM_ID>> \o NotAPoint \o <<0>>,
      Repeat(0, 5) \o <<ED25519_ALGORITHM_ID>> \o KeyMaterial \o Repeat(0, 5),
      Repeat(9, 25) \o <<ED25519_ALGORITHM_ID>> \o KeyMaterial \o Repeat(9, 2),
      Repeat(0, 40), Repeat(255, 64), Repeat(0, 63) \o <<5>>,
      Repeat(1, 12) \o KeyMaterial, Repeat(0, 52) \o <<5>>,
      Repeat(1, 32) \o VerifyingKeyOf(Repeat(1, 32)),
      Repeat(9, 30) \o Repeat(1, 32) \o VerifyingKeyOf(Repeat(1, 32)) }

\* the texts a blob arrives as: its base64, the base64 broken over lines,
\* the base64 between characters outside the alphabet, the base64 cut short
KeyTextForms == {"plain", "wrapped", "armored", "cut"}

KeyText(blob, form) ==
    LET text == STANDARD_encode(blob)
    IN  CASE form = "plain"   -> text
          [] form = "wrapped" ->
                IF Len(text) < 4 THEN <<" ">> \o text \o <<"\n">>
                ELSE <<" ">> \o SubSeq(text, 1, 4) \o <<"\n">>
                         \o SubSeq(text, 5, Len(text)) \o <<"\n">>
          [] form = "armored" -> <<"-">> \o text \o <<"!">>
          [] form = "cut"     -> SubSeq(text, 1, Len(text) - 1)

\* both variables set to one text
TextEnv(text) ==
    [IRONSHIELD_PRIVATE_KEY |-> Some(text), IRONSHIELD_PUBLIC_KEY |-> Some(text)]

\* a blob and the text it arrives as; the text of test_invalid_key_format,
\* of which the trimming loop of parse_key_simple decodes the first 4 symbols
KeyInputs ==
    { <<blob, KeyText(blob, form)>> : blob \in KeyBlobs, form \in KeyTextForms }
    \cup { <<STANDARD_decode(SubSeq(InvalidKeyText, 1, 4)).val, InvalidKeyText>> }

\* a process starts with key material at hand, in its environment or not
InitKeys ==
    /\ NoTests
    /\ now = Epoch
    /\ challenge = None
    /\ issued = None
    /\ sigs = <<>>
    /\ prev = NoOp
    /\ run = NotRunning
    /\ \E input \in KeyInputs :
          /\ last = [op |-> "key_material", key_bytes |-> input[1],
                     key_data |-> input[2]]
          /\ env \in {NoEnv, TextEnv(input[2])}

TryExtractEd25519Key(is_private) ==
    /\ last.op = "key_material"
    /\ last' = [op |-> "try_extract_ed25519_key", key_bytes |-> last.key_bytes,
                is_private |-> is_private,
                res |-> try_extract_ed25519_key(last.key_bytes, is_private)]
    /\ UNCHANGED <<now, env, challenge, issued, sigs, prev, testVars, run>>

\* parse_key_simple(key_data, is_private), as the loaders call it
ParseKeySimple(is_private) ==
    /\ last.op = "key_material"
    /\ last' = [op |-> "parse_key_simple", key_data |-> last.key_data,
                is_private |-> is_private,
                res |-> parse_key_simple(last.key_data, is_private)]
    /\ UNCHANGED <<now, env, challenge, issued, sigs, prev, testVars, run>>

LoadPrivateKeyFromData ==
    /\ last.op = "key_material"
    /\ last' = [op |-> "load_key", is_private |-> TRUE, from_env |-> FALSE,
                key_data |-> Some(last.key_data),
                res |-> load_private_key_from_data(last.key_data)]
    /\ UNCHANGED <<now, env, challenge, issued, sigs, prev, testVars, run>>

LoadPublicKeyFromData ==
    /\ last.op = "key_material"
    /\ last' = [op |-> "load_key", is_private |-> FALSE, from_env |-> FALSE,
                key_data |-> Some(last.key_data),
                res |-> load_public_key_from_data(last.key_data)]
    /\ UNCHANGED <<now, env, challenge, issued, sigs, prev, testVars, run>>

LoadPrivateKeyFromEnv ==
    /\ last.op = "key_material"
    /\ last' = [op |-> "load_key", is_private |-> TRUE, from_env |-> TRUE,
                key_data |-> env.IRONSHIELD_PRIVATE_KEY,
                res |-> load_private_key_from_env(env)]
    /\ UNCHANGED <<now, env, challenge, issued, sigs, prev, testVars, run>>

LoadPublicKeyFromEnv ==
    /\ last.op = "key_material"
    /\ last' = [op |-> "load_key", is_private |-> FALSE, from_env |-> TRUE,
                key_data |-> env.IRONSHIELD_PUBLIC_KEY,
                res |-> load_public_key_from_env(env)]
    /\ UNCHANGED <<now, env, challenge, issued, sigs, prev, testVars, run>>

NextKeys ==
    \/ \E is_private \in BOOLEAN : TryExtractEd25519Key(is_private)
    \/ \E is_private \in BOOLEAN : ParseKeySimple(is_private)
    \/ LoadPrivateKeyFromData
    \/ LoadPublicKeyFromData
    \/ LoadPrivateKeyFromEnv
    \/ LoadPublicKeyFromEnv

SpecKeys == InitKeys /\ [][NextKeys]_vars

\* a loader has run on a key text
IsLoad == last.op = "load_key" /\ last.key_data # None

\* the bytes the whitespace-stripped text is the base64 of
StrippedDecode(key_data) == STANDARD_decode(SelectSeq(key_data, NotWhitespace))

IsRawKeyText(key_data) ==
    StrippedDecode(key_data).ok /\ Len(StrippedDecode(key_data).val) = 32

\* C16: when the whitespace-stripped key text is the base64 of exactly 32
\* bytes, a private key load returns the key of exactly those bytes, and a
\* public key load returns the key of exactly those bytes when they are a
\* valid public key and fails with InvalidKeyFormat when they are not.
RawKeyDirect ==
    (IsLoad /\ IsRawKeyText(last.key_data[1]))
    => LET key_bytes == StrippedDecode(last.key_data[1]).val
       IN  IF last.is_private \/ IsCurvePoint(key_bytes)
           THEN last.res = Ok(key_bytes)
           ELSE ~last.res.ok /\ last.res.err = "InvalidKeyFormat"

\* a raw private key broken over lines is loaded from the environment
RawKeyDirectWitness ==
    /\ IsLoad
    /\ last.from_env
    /\ last.is_private
    /\ last.key_data[1] = KeyText(Repeat(1, 32), "wrapped")
    /\ last.res = Ok(Repeat(1, 32))

\* try_extract_ed25519_key has run on a blob
IsExtract == last.op = "try_extract_ed25519_key"

\* the indices (from 0) of the algorithm tags of a blob that 32 bytes forming
\* a valid key follow
TagsWithKey(key_bytes, is_private) ==
    {i \in 0..(Len(key_bytes) - 33) :
        /\ key_bytes[i + 1] = ED25519_ALGORITHM_ID
        /\ (is_private \/ IsCurvePoint(KeyWindow(key_bytes, i + 1)))}

\* C17: for a blob longer than 32 bytes that holds the algorithm tag followed
\* by 32 bytes forming a valid key, key extraction returns the 32 bytes after
\* the first such tag, also when they are the last bytes of the blob and
\* whatever the sliding scan and the fixed offsets would find.
TagScanFirst ==
    (/\ IsExtract
     /\ Len(last.key_bytes) > 32
     /\ TagsWithKey(last.key_bytes, last.is_private) # {})
    => last.res = Ok(KeyWindow(last.key_bytes,
                        SetMin(TagsWithKey(last.key_bytes, last.is_private)) + 1))

\* none of the three scans accepts a window of the blob
NoScanAccepts(key_bytes, is_private) ==
    /\ \A w \in SlidingStarts(key_bytes) : ~SlidingAccepts(key_bytes, is_private, w)
    /\ \A i \in 0..(Len(key_bytes) - 1) : ~TagAccepts(key_bytes, is_private, i)
    /\ \A o \in common_offsets : ~OffsetAccepts(key_bytes, is_private, o)

\* the error is PgpParsingFailed and its message holds the size
NamesSize(res, size) ==
    /\ ~res.ok
    /\ res.err = "PgpParsingFailed"
    /\ Len(res.msg) >= 2
    /\ res.msg[2] = size

\* C18: when the blob is not exactly 32 bytes and none of the three scans
\* accepts a window, which holds of every blob below 32 bytes, key extraction
\* fails with PgpParsingFailed and the message holds the size of the blob.
ExtractionFailureNamesSize ==
    IsExtract
    => /\ Len(last.key_bytes) < 32
          => NamesSize(last.res, Len(last.key_bytes))
       /\ (Len(last.key_bytes) > 32 /\ NoScanAccepts(last.key_bytes, last.is_private))
          => NamesSize(last.res, Len(last.key_bytes))
       /\ (Len(last.key_bytes) > 32 /\ ~NoScanAccepts(last.key_bytes, last.is_private))
          => last.res.ok

\* a blob of 40 zero bytes: every window is degenerate
ExtractionFailureNamesSizeWitness ==
    /\ IsExtract
    /\ last.key_bytes = Repeat(0, 40)
    /\ last.res.err = "PgpParsingFailed"
    /\ last.res.msg[2] = 40

\* the outcome of the heuristic path on the text a loader was given
HeuristicOutcome == parse_key_simple(last.key_data[1], last.is_private)

\* what the raw base64 fallback must return on the text a loader was given
RawFallbackHolds ==
    LET raw == STANDARD_decode(Trim(last.key_data[1]))
    IN  IF ~raw.ok THEN ~last.res.ok /\ last.res.err = "Base64DecodingFailed"
        ELSE IF Len(raw.val) # 32
        THEN ~last.res.ok /\ last.res.err = "InvalidKeyFormat"
        ELSE IF last.is_private \/ IsCurvePoint(raw.val) THEN last.res = Ok(raw.val)
        ELSE ~last.res.ok /\ last.res.err = "InvalidKeyFormat"

\* C19: each of the four loaders tries the heuristic path first; only when
\* that fails with PgpParsingFailed or Base64DecodingFailed is the text decoded
\* again as raw base64, which must give exactly 32 bytes: Base64DecodingFailed
\* when it does not decode, InvalidKeyFormat when the length differs; any
\* other failure of the heuristic path is returned as it is.
FallbackOnlyOnParsingFailure ==
    IsLoad
    => IF HeuristicOutcome.ok
       THEN IF last.is_private \/ IsCurvePoint(HeuristicOutcome.val)
            THEN last.res = Ok(HeuristicOutcome.val)
            ELSE ~last.res.ok /\ last.res.err = "InvalidKeyFormat"
       ELSE IF HeuristicOutcome.err \in {"PgpParsingFailed", "Base64DecodingFailed"}
       THEN RawFallbackHolds
       ELSE last.res = HeuristicOutcome

\* a 31-byte blob read from the environment: the heuristic path fails with
\* PgpParsingFailed, the fallback decodes 31 bytes and reports the length
FallbackOnlyOnParsingFailureWitness ==
    /\ IsLoad
    /\ last.from_env
    /\ last.key_data[1] = STANDARD_encode(Repeat(7, 31))
    /\ HeuristicOutcome.err = "PgpParsingFailed"
    /\ last.res.err = "InvalidKeyFormat"
    /\ last.res.msg = <<"key length", 31>>

-----------------------------------------------------------------------------
(* The tests of crypto.rs that share the process environment               *)

\* the tests start together; the environment is empty
InitTests ==
    /\ now = Epoch
    /\ env = NoEnv
    /\ challenge = None
    /\ issued = None
    /\ sigs = <<>>
    /\ last = NoOp
    /\ prev = NoOp
    /\ run = NotRunning
    /\ ENV_MUTEX = None
    /\ pc = [t \in Tests |-> 1]
    /\ loaded = [t \in Tests |-> NothingLoaded]
    /\ locking \in BOOLEAN

\* the call the test is at
AtCall(test, call) ==
    /\ pc[test] \in DOMAIN Program(test)
    /\ Program(test)[pc[test]] = call

Proceed(test) == pc' = [pc EXCEPT ![test] = @ + 1]

\* a plausible slip: a lock that never makes a test wait
MutexFree_Always(holder) == TRUE

\* Mutex::lock returns once no other thread holds the mutex
MutexFree(holder) == holder = None

\* let _lock = ENV_MUTEX.lock().unwrap()
Lock(test) ==
    /\ AtCall(test, "lock")
    /\ IF locking
       THEN MutexFree(ENV_MUTEX) /\ ENV_MUTEX' = Some(test)
       ELSE UNCHANGED ENV_MUTEX
    /\ Proceed(test)
    /\ UNCHANGED <<now, env, challenge, issued, sigs, last, prev, loaded, locking, run>>

\* env::set_var("IRONSHIELD_PRIVATE_KEY", &private_key)
SetPrivateKey(test) ==
    /\ AtCall(test, "set_private")
    /\ env' = [env EXCEPT !.IRONSHIELD_PRIVATE_KEY =
                  Some(STANDARD_encode(KeyOfTest(test)))]
    /\ Proceed(test)
    /\ UNCHANGED <<now, challenge, issued, sigs, last, prev, ENV_MUTEX, loaded, locking, run>>

\* env::set_var("IRONSHIELD_PUBLIC_KEY", &public_key)
SetPublicKey(test) ==
    /\ AtCall(test, "set_public")
    /\ env' = [env EXCEPT !.IRONSHIELD_PUBLIC_KEY =
                  Some(STANDARD_encode(VerifyingKeyOf(KeyOfTest(test))))]
    /\ Proceed(test)
    /\ UNCHANGED <<now, challenge, issued, sigs, last, prev, ENV_MUTEX, loaded, locking, run>>

\* env::remove_var("IRONSHIELD_PRIVATE_KEY")
RemovePrivateKey(test) ==
    /\ AtCall(test, "remove_private")
    /\ env' = [env EXCEPT !.IRONSHIELD_PRIVATE_KEY = None]
    /\ Proceed(test)
    /\ UNCHANGED <<now, challenge, issued, sigs, last, prev, ENV_MUTEX, loaded, locking, run>>

\* env::remove_var("IRONSHIELD_PUBLIC_KEY")
RemovePublicKey(test) ==
    /\ AtCall(test, "remove_public")
    /\ env' = [env EXCEPT !.IRONSHIELD_PUBLIC_KEY = None]
    /\ Proceed(test)
    /\ UNCHANGED <<now, challenge, issued, sigs, last, prev, ENV_MUTEX, loaded, locking, run>>

\* load_private_key_from_env()
TestLoadsPrivateKey(test) ==
    /\ AtCall(test, "load_private")
    /\ loaded' = [loaded EXCEPT ![test].private = Some(load_private_key_from_env(env))]
    /\ Proceed(test)
    /\ UNCHANGED <<now, env, challenge, issued, sigs, last, prev, ENV_MUTEX, locking, run>>

\* load_public_key_from_env(), directly or inside verify_challenge_signature
TestLoadsPublicKey(test) ==
    /\ AtCall(test, "load_public")
    /\ loaded' = [loaded EXCEPT ![test].public = Some(load_public_key_from_env(env))]
    /\ Proceed(test)
    /\ UNCHANGED <<now, env, challenge, issued, sigs, last, prev, ENV_MUTEX, locking, run>>

\* _lock goes out of scope at the end of the test
Unlock(test) ==
    /\ AtCall(test, "unlock")
    /\ ENV_MUTEX' = IF ENV_MUTEX = Some(test) THEN None ELSE ENV_MUTEX
    /\ Proceed(test)
    /\ UNCHANGED <<now, env, challenge, issued, sigs, last, prev, loaded, locking, run>>

NextTests ==
    \E test \in Tests :
        \/ Lock(test)
        \/ SetPrivateKey(test)
        \/ SetPublicKey(test)
        \/ RemovePrivateKey(test)
        \/ RemovePublicKey(test)
        \/ TestLoadsPrivateKey(test)
        \/ TestLoadsPublicKey(test)
        \/ Unlock(test)

SpecTests == InitTests /\ [][NextTests]_vars

\* what a test's own writes make each loader return
OwnPrivateKey(test) ==
    IF test = "test_missing_environment_variables"
    THEN CryptoError("MissingEnvironmentVariable", "IRONSHIELD_PRIVATE_KEY")
    ELSE Ok(KeyOfTest(test))

OwnPublicKey(test) ==
    IF test = "test_missing_environment_variables"
    THEN CryptoError("MissingEnvironmentVariable", "IRONSHIELD_PUBLIC_KEY")
    ELSE Ok(VerifyingKeyOf(KeyOfTest(test)))

\* a loader returned to the test something other than what the test wrote
ObservesForeignKeys(test) ==
    \/ loaded[test].private \notin {None, Some(OwnPrivateKey(test))}
    \/ loaded[test].public \notin {None, Some(OwnPublicKey(test))}

\* C20: when every test that writes the two variables holds ENV_MUTEX from
\* before its first write until after its last load, then in every
\* interleaving each test's loaders return the keys that test wrote, and the
\* test that removed the variables gets MissingEnvironmentVariable; a test
\* observes another test's keys only when the mutex is not taken.
MutexIsolatesTests ==
    locking => \A test \in Tests : ~ObservesForeignKeys(test)

\* all three tests have run under the mutex and each has loaded its own keys
MutexIsolatesTestsWitness ==
    /\ locking
    /\ \A test \in Tests : pc[test] > Len(Program(test))
    /\ \A test \in Tests : loaded[test].public = Some(OwnPublicKey(test))
    /\ loaded["test_load_keys_from_env"].private = Some(Ok(Repeat(1, SECRET_KEY_LENGTH)))
    /\ loaded["test_missing_environment_variables"].private[1].err
           = "MissingEnvironmentVariable"

\* without the mutex: test_load_keys_from_env has loaded the private key
\* that test_challenge_signing_and_verification wrote
InterferenceWithoutMutex ==
    /\ ~locking
    /\ loaded["test_load_keys_from_env"].private = Some(Ok(Repeat(2, SECRET_KEY_LENGTH)))

-----------------------------------------------------------------------------
(* Expiry                                                                  *)

-----------------------------------------------------------------------------
(* The sliding-window scan                                                 *)

\* the start offsets of all 32-byte windows of a blob: 0 through len - 32
AllWindowStarts(key_bytes) == 0..(Len(key_bytes) - 32)

\* the windows the sliding scan would return if it looked at them
AcceptableWindows(key_bytes, is_private) ==
    {w \in AllWindowStarts(key_bytes) : SlidingAccepts(key_bytes, is_private, w)}

\* C22: the sliding-window scan examines every 32-byte window of the blob,
\* the one ending at the last byte included, and skips only the windows that
\* are all 0x00 or all 0xFF: a blob longer than 32 bytes with a window the
\* scan accepts is answered with the first such window.
SlidingExaminesEveryWindow ==
    (/\ IsExtract
     /\ Len(last.key_bytes) > 32
     /\ AcceptableWindows(last.key_bytes, last.is_private) # {})
    => last.res = Ok(KeyWindow(last.key_bytes,
                        SetMin(AcceptableWindows(last.key_bytes, last.is_private))))

\* the windows of a blob whose derived public key reappears later in the blob
ReappearingWindows(key_bytes) ==
    {w \in AllWindowStarts(key_bytes) :
        /\ ~IsDegenerate(KeyWindow(key_bytes, w))
        /\ PublicKeyReappears(key_bytes, w)}

\* C23: for a private key, a window whose derived public key reappears later
\* in the blob is returned in preference to any window that qualifies by its
\* offset in 20..=200 alone, whichever of the two starts earlier.
ReappearingKeyPreferred ==
    (/\ IsExtract
     /\ last.is_private
     /\ Len(last.key_bytes) > 32
     /\ ReappearingWindows(last.key_bytes) # {})
    => /\ last.res.ok
       /\ \E w \in ReappearingWindows(last.key_bytes) :
              last.res.val = KeyWindow(last.key_bytes, w)

-----------------------------------------------------------------------------
(* A website_id that holds the separator                                   *)

\* the website_id values given to new: without, with one, with two and with
\* nothing but the separator
SeparatorWebsiteIds ==
    { <<"e", "x">>, <<"e", "|", "x">>, <<"|">>, <<"a", "|", "b", "|", "c">> }

SeparatorDifficulties == {1, 2, 1000, 50000}

NextSeparator ==
    \/ \E rb \in RandomBytes, w \in SeparatorWebsiteIds,
          d \in SeparatorDifficulties, sk \in SecretKeys :
          New(rb, w, d, sk, VerifyingKeyOf(sk))
    \/ ConcatStruct
    \/ FromConcatStruct
    \/ ToBase64urlHeader
    \/ FromBase64urlHeader

SpecSeparator == Idle /\ [][NextSeparator]_vars

\* the number of separators in a text
SeparatorCount(str) == Cardinality({i \in DOMAIN str : str[i] = "|"})

\* C24: new accepts a website_id that holds k >= 1 separators and returns a
\* signed challenge with it; decoding that challenge's own encoding, by
\* from_concat_struct or by from_base64url_header, fails with the field-count
\* error that reports 8 + k parts.
SeparatorBreaksDecoding ==
    (challenge # None /\ SeparatorCount(Held.website_id) >= 1)
    => LET k == SeparatorCount(Held.website_id)
       IN  /\ last.op = "new"
              => /\ last.res = Ok(Held)
                 /\ verify_challenge_signature_with_key(sigs, Held, Held.public_key).ok
           /\ (last.op = "from_concat_struct" /\ last.input = concat_struct(Held))
              => last.res = Err(<<"Expected 8 parts, got", 8 + k>>)
           /\ (last.op = "from_base64url_header" /\ last.input = to_base64url_header(Held))
              => last.res = Err(<<"Expected 8 parts, got", 8 + k>>)

\* the header of a challenge made by new with the website_id a|b|c is read
\* back: 10 parts
SeparatorBreaksDecodingWitness ==
    /\ challenge # None
    /\ issued # None
    /\ Held = Issued.challenge
    /\ Held.website_id = <<"a", "|", "b", "|", "c">>
    /\ last.op = "from_base64url_header"
    /\ last.input = to_base64url_header(Held)
    /\ last.res = Err(<<"Expected 8 parts, got", 10>>)

-----------------------------------------------------------------------------
(* Whitespace in key text                                                  *)

WhitespaceChars == {" ", "\t", "\r", "\n"}

\* the places of a text where whitespace is put in: before it, after its
\* first character, in its middle, before its last character, after it
InsertionPoints(str) ==
    {0, 1, Len(str) \div 2, Len(str) - 1, Len(str)} \cap (0..Len(str))

InsertAt(str, i, c) == SubSeq(str, 1, i) \o <<c>> \o SubSeq(str, i + 1, Len(str))

\* texts that differ from str in whitespace alone: all of it taken out, one
\* more character of it put in, a line break put in at two places
WhitespaceVariants(str) ==
    {SelectSeq(str, LAMBDA c : c \notin WhitespaceChars)}
    \cup {InsertAt(str, i, c) : i \in InsertionPoints(str), c \in WhitespaceChars}
    \cup {InsertAt(InsertAt(str, Len(str) \div 2, "\r"), Len(str) \div 2 + 1, "\n")}

\* C25: all whitespace is stripped before decoding: parse_key_simple returns
\* the same result for a key text and for any text made from it by putting
\* in or taking out spaces, tabs, CR and LF, and whenever
\* load_private_key_from_data or load_public_key_from_data returns Ok for the
\* one it returns the same key for the other.
WhitespaceInsensitive ==
    /\ last.op = "parse_key_simple"
       => \A other \in WhitespaceVariants(last.key_data) :
              parse_key_simple(other, last.is_private) = last.res
    /\ (IsLoad /\ ~last.from_env /\ last.res.ok)
       => \A other \in WhitespaceVariants(last.key_data[1]) :
              (IF last.is_private THEN load_private_key_from_data(other)
               ELSE load_public_key_from_data(other)) = last.res

\* a blob with the tagged key, given in lines: the key is found, as it is in
\* the text without the line breaks
WhitespaceInsensitiveWitness ==
    /\ last.op = "parse_key_simple"
    /\ last.key_data = KeyText(<<ED25519_ALGORITHM_ID>> \o KeyMaterial \o <<0>>, "wrapped")
    /\ last.res = Ok(KeyMaterial)
    /\ parse_key_simple(STANDARD_encode(<<ED25519_ALGORITHM_ID>> \o KeyMaterial \o <<0>>),
                        last.is_private) = last.res

-----------------------------------------------------------------------------
(* parse_key_simple and try_extract_ed25519_key, one loop iteration a step *)

\* parse_key_simple has been called on a key text
InitRun ==
    /\ NoTests
    /\ now = Epoch
    /\ env = NoEnv
    /\ challenge = None
    /\ issued = None
    /\ sigs = <<>>
    /\ last = NoOp
    /\ prev = NoOp
    /\ \E input \in KeyInputs, is_private \in BOOLEAN :
          run = [phase |-> "start", key_data |-> input[2], is_private |-> is_private,
                 test_data |-> <<>>, key_bytes |-> <<>>, index |-> 0,
                 read |-> None, result |-> None]

\* return result
Returned(result) == [run EXCEPT !.phase = "done", !.result = Some(result)]

\* return try_extract_ed25519_key(&key_bytes, is_private)
Extracting(key_bytes) ==
    [run EXCEPT !.phase = "extract", !.key_bytes = key_bytes, !.read = None]

RunUnchanged == UNCHANGED <<now, env, challenge, issued, sigs, last, prev, testVars>>

\* parse_key_simple up to the trimming loop: the text cleaned, the decoding
\* of the repaired text and of the cleaned text tried
RunStart ==
    /\ run.phase = "start"
    /\ LET cleaned_data == SelectSeq(run.key_data, NotWhitespace)
           fixed_data   == SelectSeq(cleaned_data, IsBase64Char)
       IN  run' = IF fixed_data # cleaned_data /\ STANDARD_decode(fixed_data).ok
                  THEN Extracting(STANDARD_decode(fixed_data).val)
                  ELSE IF STANDARD_decode(cleaned_data).ok
                  THEN Extracting(STANDARD_decode(cleaned_data).val)
                  ELSE [run EXCEPT !.phase = "trim", !.test_data = cleaned_data]
    /\ RunUnchanged

\* a plausible slip: the trimming loop without its pop
Popped_Nothing(test_data) == test_data

\* test_data.pop()
Popped(test_data) == SubSeq(test_data, 1, Len(test_data) - 1)

\* one iteration of the trimming loop, or its exit
RunTrim ==
    /\ run.phase = "trim"
    /\ run' = IF run.test_data = <<>>
              THEN Returned(CryptoError("Base64DecodingFailed",
                       <<"Failed to decode cleaned key data",
                         STANDARD_decode(SelectSeq(run.key_data, NotWhitespace)).err>>))
              ELSE IF STANDARD_decode(run.test_data).ok
              THEN Extracting(STANDARD_decode(run.test_data).val)
              ELSE [run EXCEPT !.test_data = Popped(run.test_data)]
    /\ RunUnchanged

\* try_extract_ed25519_key up to its scans
RunExtract ==
    /\ run.phase = "extract"
    /\ run' = IF IsRawKey(run.key_bytes)
              THEN [Returned(IF run.is_private \/ IsCurvePoint(run.key_bytes)
                             THEN Ok(run.key_bytes)
                             ELSE CryptoError("InvalidKeyFormat", "Invalid raw public key"))
                        EXCEPT !.read = Some(<<0, 32>>)]
              ELSE IF Len(run.key_bytes) >= 32
              THEN [run EXCEPT !.phase = "sliding", !.index = 0]
              ELSE Returned(PgpParsingFailed(Len(run.key_bytes)))
    /\ RunUnchanged

\* one iteration of the sliding-window loop, or its exit
RunSliding ==
    /\ run.phase = "sliding"
    /\ run' = IF run.index \notin SlidingStarts(run.key_bytes)
              THEN [run EXCEPT !.phase = "tag", !.index = 0, !.read = None]
              ELSE IF SlidingAccepts(run.key_bytes, run.is_private, run.index)
              THEN [Returned(Ok(KeyWindow(run.key_bytes, run.index)))
                        EXCEPT !.read = Some(<<run.index, run.index + 32>>)]
              ELSE [run EXCEPT !.index = @ + 1,
                               !.read = Some(<<run.index, run.index + 32>>)]
    /\ RunUnchanged

\* one iteration of the algorithm-tag loop, or its exit
RunTag ==
    /\ run.phase = "tag"
    /\ run' = IF run.index >= Len(run.key_bytes)
              THEN [run EXCEPT !.phase = "offsets", !.index = 0, !.read = None]
              ELSE IF /\ run.key_bytes[run.index + 1] = ED25519_ALGORITHM_ID
                      /\ run.index + 33 < Len(run.key_bytes)
                      /\ run.index + 1 + 32 <= Len(run.key_bytes)
              THEN IF TagAccepts(run.key_bytes, run.is_private, run.index)
                   THEN [Returned(Ok(KeyWindow(run.key_bytes, run.index + 1)))
                             EXCEPT !.read = Some(<<run.index + 1, run.index + 33>>)]
                   ELSE [run EXCEPT !.index = @ + 1,
                                    !.read = Some(<<run.index + 1, run.index + 33>>)]
              ELSE [run EXCEPT !.index = @ + 1,
                               !.read = Some(<<run.index, run.index + 1>>)]
    /\ RunUnchanged

\* common_offsets[i], i counted from 0
CommonOffsetAt(i) == 32 + 4 * i

\* one iteration of the fixed-offset loop, or its exit
RunOffsets ==
    /\ run.phase = "offsets"
    /\ run' = IF CommonOffsetAt(run.index) \notin common_offsets
              THEN Returned(PgpParsingFailed(Len(run.key_bytes)))
              ELSE IF CommonOffsetAt(run.index) + 32 > Len(run.key_bytes)
              THEN [run EXCEPT !.index = @ + 1, !.read = None]
              ELSE IF OffsetAccepts(run.key_bytes, run.is_private, CommonOffsetAt(run.index))
              THEN [Returned(Ok(KeyWindow(run.key_bytes, CommonOffsetAt(run.index))))
                        EXCEPT !.read = Some(<<CommonOffsetAt(run.index),
                                               CommonOffsetAt(run.index) + 32>>)]
              ELSE [run EXCEPT !.index = @ + 1,
                               !.read = Some(<<CommonOffsetAt(run.index),
                                               CommonOffsetAt(run.index) + 32>>)]
    /\ RunUnchanged

NextRun ==
    \/ RunStart
    \/ RunTrim
    \/ RunExtract
    \/ RunSliding
    \/ RunTag
    \/ RunOffsets

\* the thread that called parse_key_simple keeps running
SpecRun == InitRun /\ [][NextRun]_vars /\ WF_vars(NextRun)

\* the slice read last lies inside the decoded blob
ReadsInside ==
    run.read = None
    \/ /\ 0 <= run.read[1][1]
       /\ run.read[1][1] <= run.read[1][2]
       /\ run.read[1][2] <= Len(run.key_bytes)

\* the result is Ok of 32 bytes or a CryptoError, the one parse_key_simple returns
TypedResult ==
    run.phase = "done"
    => /\ run.result # None
       /\ run.result[1] = parse_key_simple(run.key_data, run.is_private)
       /\ IF run.result[1].ok THEN Len(run.result[1].val) = 32
          ELSE run.result[1].err \in
                   {"Base64DecodingFailed", "PgpParsingFailed", "InvalidKeyFormat"}

\* each iteration of the trimming loop takes one character off
TrimShortens ==
    (run.phase = "trim" /\ run'.phase = "trim")
    => Len(run'.test_data) = Len(run.test_data) - 1

\* C26: key parsing always ends with a typed result: on every key text
\* parse_key_simple, its trimming loop included, which takes one character
\* off in each iteration and stops at the empty text, and the three scans of
\* try_extract_ed25519_key finish with Ok of 32 bytes or with a CryptoError,
\* and no step reads outside the decoded blob.
KeyParsingTerminates ==
    /\ [](ReadsInside /\ TypedResult)
    /\ [][TrimShortens]_vars
    /\ <>(run.phase = "done")

\* the trimming loop has run down to the empty text and the call has ended
\* with Base64DecodingFailed
KeyParsingTerminatesWitness ==
    /\ run.phase = "done"
    /\ run.test_data = <<>>
    /\ run.key_data # <<>>
    /\ run.result = Some(parse_key_simple(run.key_data, run.is_private))
    /\ ~run.result[1].ok
    /\ run.result[1].err = "Base64DecodingFailed"

-----------------------------------------------------------------------------
(* The legacy fallback of the loaders                                      *)

\* the loader went on to the raw base64 fallback
FallbackEntered == IsLoad /\ ~HeuristicOutcome.ok /\ FallsBack(HeuristicOutcome)

\* C27: the raw base64 fallback of the four loaders never succeeds: every Ok
\* of a loader is the key parse_key_simple returned; whenever the fallback is
\* entered the loader returns Base64DecodingFailed or InvalidKeyFormat; and
\* no loader ever returns PgpParsingFailed.
LegacyFallbackNeverSucceeds ==
    last.op = "load_key"
    => /\ last.res.ok => (IsLoad /\ HeuristicOutcome = Ok(last.res.val))
       /\ FallbackEntered
          => /\ ~last.res.ok
             /\ last.res.err \in {"Base64DecodingFailed", "InvalidKeyFormat"}
       /\ ~last.res.ok => last.res.err # "PgpParsingFailed"

\* a 16-byte blob given as data for a public key: parse_key_simple fails with
\* PgpParsingFailed, the fallback decodes the text and refuses its length
LegacyFallbackNeverSucceedsWitness ==
    /\ FallbackEntered
    /\ ~last.from_env
    /\ ~last.is_private
    /\ HeuristicOutcome.err = "PgpParsingFailed"
    /\ STANDARD_decode(Trim(last.key_data[1])).ok
    /\ Len(STANDARD_decode(Trim(last.key_data[1])).val) = 16
    /\ ~last.res.ok
    /\ last.res.err = "InvalidKeyFormat"

-----------------------------------------------------------------------------
(* The signing payload of two sets of fields                               *)

\* nonces and website ids without the separator, times and arrays whose
\* digits could run into each other were nothing put between the fields
PayloadNonces == {<<>>, <<"1">>}

PayloadTimes == {1, 11, 0 - 1}

PayloadExpirations == {1, 11}

PayloadWebsiteIds == {<<>>, <<"1">>}

PayloadParams == {Repeat(17, 32), <<1>> \o Repeat(17, 31)}

PayloadKeys == {Repeat(17, 32), Repeat(17, 31) \o <<16>>}

PayloadFields ==
    [random_nonce : PayloadNonces, created_time : PayloadTimes,
     expiration_time : PayloadExpirations, website_id : PayloadWebsiteIds,
     challenge_param : PayloadParams, public_key : PayloadKeys]

\* two sets of fields are about to be signed
InitPayload ==
    /\ NoTests
    /\ now = Epoch
    /\ env = NoEnv
    /\ challenge = None
    /\ issued = None
    /\ sigs = <<>>
    /\ prev = NoOp
    /\ run = NotRunning
    /\ \E one \in PayloadFields, other \in PayloadFields :
          last = [op |-> "fields", one |-> one, other |-> other]

\* create_signing_message on the fields f
PayloadOf(f) ==
    create_signing_message(f.random_nonce, f.created_time, f.expiration_time,
                           f.website_id, f.challenge_param, f.public_key)

\* create_signing_message is called on both
CreateSigningMessages ==
    /\ last.op = "fields"
    /\ last' = [op |-> "create_signing_message", one |-> last.one, other |-> last.other,
                messages |-> <<PayloadOf(last.one), PayloadOf(last.other)>>]
    /\ UNCHANGED <<now, env, challenge, issued, sigs, prev, testVars, run>>

NextPayload == CreateSigningMessages

SpecPayload == InitPayload /\ [][NextPayload]_vars

\* C28: the signing payload is injective: two sets of fields (random_nonce,
\* created_time, expiration_time, website_id, challenge_param, public_key)
\* whose random_nonce and website_id hold no '|' and that differ in at least
\* one field give different strings.
PayloadInjective ==
    (/\ last.op = "create_signing_message"
     /\ \A f \in {last.one, last.other} :
            "|" \notin Range(f.random_nonce) \cup Range(f.website_id)
     /\ last.one # last.other)
    => last.messages[1] # last.messages[2]

\* two payloads that differ although their fields have the same characters
\* in the same order: an empty nonce before the time 11, the nonce "1"
\* before the time 1
PayloadInjectiveWitness ==
    /\ last.op = "create_signing_message"
    /\ last.one.random_nonce = <<>> /\ last.one.created_time = 11
    /\ last.other.random_nonce = <<"1">> /\ last.other.created_time = 1
    /\ [last.one EXCEPT !.random_nonce = <<>>, !.created_time = 0]
           = [last.other EXCEPT !.random_nonce = <<>>, !.created_time = 0]
    /\ SelectSeq(last.messages[1], LAMBDA c : c # "|")
           = SelectSeq(last.messages[2], LAMBDA c : c # "|")
    /\ last.messages[1] # last.messages[2]

-----------------------------------------------------------------------------
(* The text of a decoded challenge                                         *)

\* from_concat_struct has accepted a text
Accepted == last.op = "from_concat_struct" /\ last.res.ok

\* C29: the wire form is canonical: a text that from_concat_struct accepts
\* is the text concat_struct gives for the challenge decoded from it.
CanonicalWireForm == Accepted => concat_struct(last.res.val) = last.input

\* an accepted text that is not the encoding of its challenge because a
\* number is written with a plus sign
AcceptedWithPlusSign ==
    /\ Accepted
    /\ last.fields[2] = <<"+", "5">>
    /\ last.res.val.created_time = 5
    /\ \A i \in {5, 7, 8} : HexEncode(HexDecode(last.fields[i]).val) = last.fields[i]
    /\ concat_struct(last.res.val) # last.input

\* an accepted text that is not the encoding of its challenge because hex
\* digits are written in upper case
AcceptedWithUpperCaseHex ==
    /\ Accepted
    /\ last.fields[2] = <<"1", "0", "0", "0">>
    /\ last.fields[5] = Repeat("F", 64)
    /\ last.res.val.challenge_param = Repeat(255, 32)
    /\ concat_struct(last.res.val) # last.input

-----------------------------------------------------------------------------
(* Expiry as time passes                                                   *)

\* the challenge held is the one new returned, no field rewritten
Unmodified == challenge # None /\ Held = Issued.challenge

\* from its creation through created_time + 30_000 the challenge of new is
\* not expired, after that it is, and is_expired() says so
ExpiryOfIssued ==
    Unmodified
    => /\ Held.created_time <= now
       /\ now <= Held.created_time + VALIDITY_MS => ~is_expired(Held, now)
       /\ now > Held.created_time + VALIDITY_MS => is_expired(Held, now)
       /\ last.op = "is_expired"
          => last.res = (now > Held.created_time + VALIDITY_MS)

\* a step that leaves the fields of an expired challenge alone leaves it
\* expired: is_expired() returns true and validate_challenge fails
ExpiredForGood ==
    (challenge # None /\ is_expired(Held, now) /\ challenge' = challenge)
    => /\ is_expired(Held', now')
       /\ ~validate_challenge(env', sigs', now', Held').ok
       /\ last'.op = "is_expired" => last'.res
       /\ last'.op = "validate_challenge" => ~last'.res.ok

\* C30: under a clock that never runs backwards a challenge returned by new
\* is not expired at any instant from created_time through
\* created_time + 30_000 and is expired at every later instant; once a
\* challenge is expired and its fields are left alone is_expired() goes on
\* returning true and validate_challenge never returns Ok again.
ExpiryOverTime == [](ExpiryOfIssued) /\ [][ExpiredForGood]_vars

\* the challenge of new, signed by the configured key, validated one
\* millisecond after its last valid instant: "Challenge has expired"
ExpiryOverTimeWitness ==
    /\ Unmodified
    /\ now = Held.created_time + VALIDITY_MS + 1
    /\ last.op = "validate_challenge"
    /\ verify_challenge_signature(env, sigs, Held).ok
    /\ ~last.res.ok
    /\ last.res.msg = "Challenge has expired"

=============================================================================
